---- MODULE Spec2Model ----
(***************************************************************************)
(* TRI-STACK: the turn state machine of App.tsx (human handlers, the bot   *)
(* effect, startRound / nextRound), the pure game logic of                 *)
(* services/gameLogic.ts (listed in README.md) and the host/client         *)
(* replication of services/online.ts (unnamed/part_001).                   *)
(*                                                                         *)
(* A card is the number  suit * Len(RANKS) + rank  (createDeck gives every *)
(* suit x rank pair one id).  Sequences are 1-based here and 0-based in    *)
(* the source: players[currentPlayerIndex] is gs.players[cpi + 1].         *)
(*                                                                         *)
(* The program deals from 4 suits x 13 ranks.  The model deals from        *)
(* NumSuits suits and the first DeckRanks(deckKind, N) ranks: the smallest *)
(* deck that is `legal' for the N seats of the match (at least             *)
(* HandSize*N + 2 cards, as 52 is for the program's 2..10 seats) or a      *)
(* `short' one (HandSize*N or HandSize*N + 1 cards), the only decks that   *)
(* reach the deadlock branches of handleDraw and of the bot effect.        *)
(***************************************************************************)
EXTENDS Integers, Sequences, FiniteSets, TLC

VARIABLES
    gameState,          \* [participant -> GameState]   useState<GameState>
    selectedCardIds,    \* [participant -> Seq(card)]   useState<string[]>
    isTransitioning,    \* [participant -> BOOLEAN]     pass-the-device overlay
    myOnlineId,         \* [participant -> seat id or NoSeat]
    roomCode,           \* [participant -> BOOLEAN]     TRUE: holds the room's code
    isOnlineLobby,      \* [participant -> BOOLEAN]
    onlineLobbyPlayers, \* [participant -> Seq(seat id)]
    selectedTotalRounds,\* [participant -> Nat]
    setupPlayerCount,   \* [participant -> Nat]
    room,               \* the shared room record (rooms table row)
    pushes,             \* updateGameState requests in flight
    inbox,              \* [participant -> Seq(room record)] realtime UPDATE events in flight
    session,            \* [participant -> persisted {code, playerId}]  localStorage
    joining,            \* [participant -> <<>> or <<row fetched by joinRoom>>]
    deckKind,           \* "legal" or "short": the deck the match is dealt from
    steps,              \* number of state-changing game actions taken (bounds the run)
    hist                \* history: last operation, completed turns, tosses per seat

vars == <<gameState, selectedCardIds, isTransitioning, myOnlineId, roomCode,
          isOnlineLobby, onlineLobbyPlayers, selectedTotalRounds, setupPlayerCount, room, pushes,
          inbox, session, joining, deckKind, steps, hist>>

----------------------------------------------------------------------------
(* Bounds of the model *)

NumSuits == 2
MaxPlayers == 3
NumSeeds == 2
MaxSteps == 6
MaxOnlineSteps == 4
NumParticipants == 2
MaxTotalRounds == 3
MaxRejected == 1
MaxStarts == 1

(* Program constants *)

HandSize == 3
SinglePlayerSeats == 4
TiePenalty == 25
MisCallPenalty == 50
ShowThreshold == 5
DEFAULT_TOTAL_ROUNDS == 5
NoCard == -1
NoSeat == -2
DummySeat == -1

RANKS == <<"A", "2", "3", "4", "5", "6", "7", "8", "9", "10", "J", "Q", "K">>

RoundOptions == {3, 5, 7, 10}

Participants == 0 .. (NumParticipants - 1)
Seeds == 0 .. (NumSeeds - 1)

Phases == {"SETUP", "PLAYER_TURN_START", "PLAYER_TOSSING_DRAW", "PLAYER_DRAW",
           "ROUND_END", "MATCH_END"}
DrawPhases == {"PLAYER_DRAW", "PLAYER_TOSSING_DRAW"}
OnlineModes == {"ONLINE_HOST", "ONLINE_CLIENT"}

----------------------------------------------------------------------------
(* Sequence helpers *)

SeqToSet(s) == {s[i] : i \in DOMAIN s}

Min(a, b) == IF a <= b THEN a ELSE b

RECURSIVE SumSeq(_)
SumSeq(s) == IF s = <<>> THEN 0 ELSE Head(s) + SumSeq(Tail(s))

Last(s) == s[Len(s)]
Front(s) == SubSeq(s, 1, Len(s) - 1)

----------------------------------------------------------------------------
(* Cards: constants.ts (SUITS, RANKS, RANK_VALUES) *)

Rank(c) == c % Len(RANKS)
Suit(c) == c \div Len(RANKS)

\* RANK_VALUES: Ace 1, numerals their numeral, 10 and pictures 10
RANK_VALUES(r) == IF r = 0 THEN 1 ELSE IF r >= 9 THEN 10 ELSE r + 1

CardValue(c) == RANK_VALUES(Rank(c))

DeckSize(nr) == NumSuits * nr

\* the smallest deck that is legal for n seats / the largest that is short
LegalRanks(n) == CHOOSE r \in 1 .. Len(RANKS) :
                    /\ NumSuits * r >= HandSize * n + 2
                    /\ \A q \in 1 .. (r - 1) : NumSuits * q < HandSize * n + 2
ShortRanksSet(n) == {r \in 1 .. Len(RANKS) :
                        /\ NumSuits * r >= HandSize * n
                        /\ NumSuits * r <= HandSize * n + 1}

----------------------------------------------------------------------------
(* services/gameLogic.ts *)

Swap(d, i, j) == [d EXCEPT ![i] = d[j], ![j] = d[i]]

\* the loop of shuffleDeck: i runs from the last index down to the second,
\* js[i] is the index Math.floor(Math.random() * (i + 1)) picked at step i
RECURSIVE ShuffleFrom(_, _, _)
ShuffleFrom(d, i, js) ==
    IF i <= 1 THEN d ELSE ShuffleFrom(Swap(d, i, js[i]), i - 1, js)

\* a shuffle that picks the swap partner below the current position only
shuffleDeckSattolo(deck, js) ==
    ShuffleFrom(deck, Len(deck), [i \in DOMAIN js |-> IF js[i] = i /\ i > 1 THEN i - 1 ELSE js[i]])

shuffleDeck(deck, js) == ShuffleFrom(deck, Len(deck), js)

\* Math.random() returning seed/NumSeeds at every call of one shuffle
RandomIndex(seed, n) == (seed * n) \div NumSeeds
RandomStream(seed, n) == [i \in 1 .. n |-> RandomIndex(seed, i) + 1]

\* the ordered deck: suits outer loop, ranks inner loop
OrderedDeck(nr) ==
    [k \in 1 .. DeckSize(nr) |-> ((k - 1) \div nr) * Len(RANKS) + ((k - 1) % nr)]

createDeck(nr, seed) == shuffleDeck(OrderedDeck(nr), RandomStream(seed, DeckSize(nr)))

\* a hand value that counts wildcard cards at face value
calculateHandValueNoJoker(hand, joker) ==
    SumSeq([i \in DOMAIN hand |-> CardValue(hand[i])])

calculateHandValue(hand, joker) ==
    IF joker = NoCard
    THEN SumSeq([i \in DOMAIN hand |-> CardValue(hand[i])])
    ELSE SumSeq([i \in DOMAIN hand |->
                    IF Rank(hand[i]) = Rank(joker) THEN 0 ELSE CardValue(hand[i])])

MinOf(S) == CHOOSE m \in S : \A x \in S : m <= x

\* a scoring that gives the caller 0 whenever it holds the lowest value, tied or not
getRoundScoresTieWins(players, callerIndex, joker) ==
    LET val(i) == calculateHandValue(players[i].hand, joker)
        callerId == players[callerIndex + 1].id
        lowestValue == MinOf({val(i) : i \in DOMAIN players})
    IN  [i \in DOMAIN players |->
            [playerId |-> players[i].id,
             roundScore |->
                IF players[i].id = callerId
                THEN IF val(callerIndex + 1) = lowestValue THEN 0 ELSE MisCallPenalty
                ELSE val(i)]]

getRoundScores(players, callerIndex, joker) ==
    LET val(i) == calculateHandValue(players[i].hand, joker)
        callerId == players[callerIndex + 1].id
        firstCaller == CHOOSE i \in DOMAIN players :
                          /\ players[i].id = callerId
                          /\ \A k \in 1 .. (i - 1) : players[k].id # callerId
        callerValue == val(firstCaller)
        lowestValue == MinOf({val(i) : i \in DOMAIN players})
        winnersCount == Cardinality({i \in DOMAIN players : val(i) = lowestValue})
        callerIsLowest == callerValue = lowestValue
    IN  [i \in DOMAIN players |->
            [playerId |-> players[i].id,
             roundScore |->
                IF players[i].id = callerId
                THEN IF callerIsLowest /\ winnersCount = 1 THEN 0
                     ELSE IF callerIsLowest /\ winnersCount > 1 THEN TiePenalty
                     ELSE MisCallPenalty
                ELSE val(i)]]

\* results.find(r => r.playerId === id)?.roundScore, 0 when absent
RoundScoreOf(results, id) ==
    IF \E i \in DOMAIN results : results[i].playerId = id
    THEN results[CHOOSE i \in DOMAIN results :
                    /\ results[i].playerId = id
                    /\ \A k \in 1 .. (i - 1) : results[k].playerId # id].roundScore
    ELSE 0

\* decideBotAction.  A hand of at most three cards holds at most one rank
\* twice, so the iteration order of rankCounts does not matter here.
PairRanks(hand, joker) ==
    {r \in {Rank(hand[i]) : i \in DOMAIN hand} :
        /\ Cardinality({i \in DOMAIN hand : Rank(hand[i]) = r}) >= 2
        /\ ~(joker # NoCard /\ r = Rank(joker))}

FirstPairRank(hand, joker) ==
    LET first(r) == CHOOSE i \in DOMAIN hand :
                        /\ Rank(hand[i]) = r
                        /\ \A k \in 1 .. (i - 1) : Rank(hand[k]) # r
    IN  CHOOSE r \in PairRanks(hand, joker) :
            \A q \in PairRanks(hand, joker) : first(r) <= first(q)

DiscardValue(c, joker) ==
    IF joker # NoCard /\ Rank(c) = Rank(joker) THEN 0 ELSE CardValue(c)

\* the first card whose value is strictly above all earlier ones and not below any later one
HighestCard(hand, joker) ==
    hand[CHOOSE i \in DOMAIN hand :
            /\ \A k \in 1 .. (i - 1) : DiscardValue(hand[k], joker) < DiscardValue(hand[i], joker)
            /\ \A k \in DOMAIN hand : DiscardValue(hand[k], joker) <= DiscardValue(hand[i], joker)]

\* a policy that declares before it looks for a pair
decideBotActionShowFirst(player, joker, tossedThisTurn) ==
    LET hand == player.hand
    IN  IF calculateHandValue(hand, joker) <= ShowThreshold
        THEN [type |-> "SHOW", cardIds |-> <<>>]
        ELSE IF ~tossedThisTurn /\ PairRanks(hand, joker) # {}
        THEN LET r == FirstPairRank(hand, joker)
                 same == SelectSeq(hand, LAMBDA c : Rank(c) = r)
             IN  [type |-> "TOSS", cardIds |-> <<same[1], same[2]>>]
        ELSE [type |-> "DISCARD", cardIds |-> <<HighestCard(hand, joker)>>]

decideBotAction(player, joker, tossedThisTurn) ==
    LET hand == player.hand
        currentScore == calculateHandValue(hand, joker)
    IN  IF ~tossedThisTurn /\ PairRanks(hand, joker) # {}
        THEN LET r == FirstPairRank(hand, joker)
                 same == SelectSeq(hand, LAMBDA c : Rank(c) = r)
             IN  [type |-> "TOSS", cardIds |-> <<same[1], same[2]>>]
        ELSE IF currentScore <= ShowThreshold
        THEN [type |-> "SHOW", cardIds |-> <<>>]
        ELSE [type |-> "DISCARD", cardIds |-> <<HighestCard(hand, joker)>>]

\* a deck one rank short of the legal one
DeckRanksOneShort(kind, n) ==
    IF kind = "legal" THEN LegalRanks(n) - 1 ELSE CHOOSE r \in ShortRanksSet(n) : TRUE

DeckRanks(kind, n) ==
    IF kind = "legal" THEN LegalRanks(n) ELSE CHOOSE r \in ShortRanksSet(n) : TRUE

HasDeck(kind, n) == kind = "legal" \/ ShortRanksSet(n) # {}

----------------------------------------------------------------------------
(* App.tsx: the state and its derived values *)

\* useState<GameState>(...).  winner (always null) and playerNames (display
\* names) are left out; a player's name is a function of its id.
InitialGameState ==
    [gameMode |-> "NONE", deck |-> <<>>, openDeck |-> <<>>, players |-> <<>>,
     currentPlayerIndex |-> 0, roundJoker |-> NoCard, roundNumber |-> 1,
     totalRounds |-> DEFAULT_TOTAL_ROUNDS, phase |-> "SETUP", turnLog |-> <<>>,
     lastDiscardedId |-> NoCard, tossedThisTurn |-> FALSE,
     pendingDiscard |-> NoCard, pendingToss |-> <<>>]

NewPlayer(id, isBot, lastAction) ==
    [id |-> id, isBot |-> isBot, hand |-> <<>>, score |-> 0, totalScore |-> 0,
     lastAction |-> lastAction, wasCaller |-> FALSE]

DummyPlayer == NewPlayer(DummySeat, FALSE, "")

currentPlayer(gs) ==
    IF (gs.currentPlayerIndex + 1) \in DOMAIN gs.players
    THEN gs.players[gs.currentPlayerIndex + 1]
    ELSE DummyPlayer

\* players.find(p => p.id === id): the first player with that id
HasPlayer(players, id) == \E i \in DOMAIN players : players[i].id = id
FindPlayer(players, id) ==
    players[CHOOSE i \in DOMAIN players :
                /\ players[i].id = id
                /\ \A k \in 1 .. (i - 1) : players[k].id # id]

bottomPlayer(gs, myId) ==
    IF gs.gameMode = "SINGLE_PLAYER" /\ Len(gs.players) > 0
    THEN gs.players[1]
    ELSE IF gs.gameMode \in OnlineModes /\ myId # NoSeat
    THEN IF HasPlayer(gs.players, myId) THEN FindPlayer(gs.players, myId) ELSE currentPlayer(gs)
    ELSE currentPlayer(gs)

\* a turn check that takes every seat for the participant's own
AlwaysMyTurn(gs, myId) == TRUE

isMyTurnOnline(gs, myId) ==
    IF gs.gameMode \in OnlineModes THEN currentPlayer(gs).id = myId ELSE TRUE

\* a turn check that looks at neither the seat's owner nor its kind
isPlayerTurnAnySeat(gs, transitioning, myId) ==
    /\ ~transitioning
    /\ gs.phase # "ROUND_END"
    /\ gs.phase # "MATCH_END"

isPlayerTurn(gs, transitioning, myId) ==
    /\ ~transitioning
    /\ ~currentPlayer(gs).isBot
    /\ gs.phase # "ROUND_END"
    /\ gs.phase # "MATCH_END"
    /\ isMyTurnOnline(gs, myId)

isBotThinking(gs, transitioning) ==
    /\ gs.gameMode = "SINGLE_PLAYER"
    /\ currentPlayer(gs).isBot
    /\ ~transitioning
    /\ gs.phase # "ROUND_END"

\* the round-end modal renders gameState.players.sort((a, b) => a.score - b.score):
\* Array.prototype.sort is stable and sorts the state's own array in place
InsertByScore(s, p) ==
    LET k == Cardinality({i \in DOMAIN s : s[i].score <= p.score})
    IN  SubSeq(s, 1, k) \o <<p>> \o SubSeq(s, k + 1, Len(s))

RECURSIVE SortByScore(_)
SortByScore(ps) ==
    IF ps = <<>> THEN <<>> ELSE InsertByScore(SortByScore(Front(ps)), Last(ps))

\* what rendering a snapshot does to it
Render(gs) ==
    IF gs.phase = "ROUND_END" THEN [gs EXCEPT !.players = SortByScore(@)] ELSE gs

----------------------------------------------------------------------------
(* App.tsx: startRound *)

SinglePlayerPlayers ==
    [i \in 1 .. SinglePlayerSeats |-> NewPlayer(i - 1, i > 1, "Waiting...")]

MultiplayerPlayers(count) ==
    [i \in 1 .. (IF count > 0 THEN count ELSE 4) |-> NewPlayer(i - 1, FALSE, "Waiting...")]

\* players.forEach(p => p.hand = newDeck.splice(0, 3))
Deal(players, deck) ==
    [i \in DOMAIN players |->
        [players[i] EXCEPT !.hand =
            SubSeq(deck, Min(HandSize * (i - 1), Len(deck)) + 1, Min(HandSize * i, Len(deck)))]]

AfterDeal(players, deck) ==
    SubSeq(deck, Min(HandSize * Len(players), Len(deck)) + 1, Len(deck))

HasCaller(players) == \E i \in DOMAIN players : players[i].wasCaller
Caller(players) ==
    players[CHOOSE i \in DOMAIN players :
                /\ players[i].wasCaller
                /\ \A k \in 1 .. (i - 1) : ~players[k].wasCaller]

\* existing = <<>> stands for a call without existingPlayers
startRound(gs, roundNum, existing, mode, totalRounds, count, kind, seed, jokerSeed) ==
    LET fresh == IF existing # <<>>
                 THEN [i \in DOMAIN existing |->
                          [existing[i] EXCEPT !.hand = <<>>, !.score = 0,
                                              !.lastAction = "Waiting...",
                                              !.wasCaller = FALSE]]
                 ELSE IF mode = "SINGLE_PLAYER" THEN SinglePlayerPlayers
                 ELSE IF mode = "MULTIPLAYER" THEN MultiplayerPlayers(count)
                 ELSE <<>>
        newDeck == createDeck(DeckRanks(kind, Len(fresh)), seed)
        roundJoker == newDeck[RandomIndex(jokerSeed, Len(newDeck)) + 1]
        startingPlayerIndex ==
            IF existing # <<>> /\ HasCaller(existing) THEN Caller(existing).id ELSE 0
    IN  [gs EXCEPT !.deck = AfterDeal(fresh, newDeck),
                   !.openDeck = <<>>,
                   !.players = Deal(fresh, newDeck),
                   !.currentPlayerIndex = startingPlayerIndex,
                   !.roundJoker = roundJoker,
                   !.roundNumber = roundNum,
                   !.totalRounds = totalRounds,
                   !.phase = "PLAYER_TURN_START",
                   !.turnLog = <<"round started">>,
                   !.lastDiscardedId = NoCard,
                   !.tossedThisTurn = FALSE,
                   !.pendingDiscard = NoCard,
                   !.pendingToss = <<>>,
                   !.gameMode = IF mode # "NONE" THEN mode ELSE gs.gameMode]

----------------------------------------------------------------------------
(* App.tsx: the human handlers *)

SetHand(players, id, newHand, lastAction) ==
    [i \in DOMAIN players |->
        IF players[i].id = id
        THEN [players[i] EXCEPT !.hand = newHand, !.lastAction = lastAction]
        ELSE players[i]]

\* a round end that records the round scores without adding them to the totals
handleShowKeepsTotals(gs) ==
    LET results == getRoundScores(gs.players, gs.currentPlayerIndex, gs.roundJoker)
        me == currentPlayer(gs)
    IN  [gs EXCEPT
            !.players = [i \in DOMAIN gs.players |->
                [gs.players[i] EXCEPT
                    !.score = RoundScoreOf(results, gs.players[i].id),
                    !.lastAction = IF gs.players[i].id = me.id
                                   THEN "CALLED SHOW!" ELSE "Revealed",
                    !.wasCaller = (gs.players[i].id = me.id)]],
            !.phase = "ROUND_END",
            !.turnLog = Append(@, "called SHOW")]

\* a round end that marks every seat as the caller
handleShowMarksAll(gs) ==
    LET results == getRoundScores(gs.players, gs.currentPlayerIndex, gs.roundJoker)
        me == currentPlayer(gs)
    IN  [gs EXCEPT
            !.players = [i \in DOMAIN gs.players |->
                [gs.players[i] EXCEPT
                    !.score = RoundScoreOf(results, gs.players[i].id),
                    !.totalScore = @ + RoundScoreOf(results, gs.players[i].id),
                    !.lastAction = IF gs.players[i].id = me.id
                                   THEN "CALLED SHOW!" ELSE "Revealed",
                    !.wasCaller = TRUE]],
            !.phase = "ROUND_END",
            !.turnLog = Append(@, "called SHOW")]

handleShow(gs) ==
    LET results == getRoundScores(gs.players, gs.currentPlayerIndex, gs.roundJoker)
        me == currentPlayer(gs)
    IN  [gs EXCEPT
            !.players = [i \in DOMAIN gs.players |->
                [gs.players[i] EXCEPT
                    !.score = RoundScoreOf(results, gs.players[i].id),
                    !.totalScore = @ + RoundScoreOf(results, gs.players[i].id),
                    !.lastAction = IF gs.players[i].id = me.id
                                   THEN "CALLED SHOW!" ELSE "Revealed",
                    !.wasCaller = (gs.players[i].id = me.id)]],
            !.phase = "ROUND_END",
            !.turnLog = Append(@, "called SHOW")]

\* "ok", "rejected" (an early return) or "error" (cards[0] or cards[1] is
\* undefined and reading its rank throws a TypeError)
\* a toss check that turns down a pair of the wildcard rank
TossOutcomeNoWildPairs(gs, sel) ==
    LET cards == SelectSeq(currentPlayer(gs).hand, LAMBDA c : c \in SeqToSet(sel))
    IN  IF Len(sel) # 2 THEN "rejected"
        ELSE IF gs.tossedThisTurn THEN "rejected"
        ELSE IF Len(cards) < 2 THEN "error"
        ELSE IF Rank(cards[1]) # Rank(cards[2]) THEN "rejected"
        ELSE IF gs.roundJoker # NoCard /\ Rank(cards[1]) = Rank(gs.roundJoker) THEN "rejected"
        ELSE "ok"

TossOutcome(gs, sel) ==
    LET cards == SelectSeq(currentPlayer(gs).hand, LAMBDA c : c \in SeqToSet(sel))
    IN  IF Len(sel) # 2 THEN "rejected"
        ELSE IF gs.tossedThisTurn THEN "rejected"
        ELSE IF Len(cards) < 2 THEN "error"
        ELSE IF Rank(cards[1]) # Rank(cards[2]) THEN "rejected"
        ELSE "ok"

\* a toss that takes only the first selected card out of the hand
handleTossKeepsOne(gs, sel) ==
    LET p == currentPlayer(gs)
        cards == SelectSeq(p.hand, LAMBDA c : c \in SeqToSet(sel))
        newHand == SelectSeq(p.hand, LAMBDA c : c # cards[1])
    IN  IF TossOutcome(gs, sel) # "ok" THEN gs
        ELSE [gs EXCEPT !.players = SetHand(@, p.id, newHand, "Tossed"),
                        !.pendingToss = <<cards[1]>>,
                        !.phase = "PLAYER_TOSSING_DRAW",
                        !.tossedThisTurn = TRUE,
                        !.turnLog = Append(@, "tossed a pair")]

\* a toss that does not record that the seat has tossed this turn
handleTossForgetsFlag(gs, sel) ==
    LET p == currentPlayer(gs)
        cards == SelectSeq(p.hand, LAMBDA c : c \in SeqToSet(sel))
        newHand == SelectSeq(p.hand, LAMBDA c : c \notin SeqToSet(sel))
    IN  IF TossOutcome(gs, sel) # "ok" THEN gs
        ELSE [gs EXCEPT !.players = SetHand(@, p.id, newHand, "Tossed"),
                        !.pendingToss = cards,
                        !.phase = "PLAYER_TOSSING_DRAW",
                        !.turnLog = Append(@, "tossed a pair")]

handleToss(gs, sel) ==
    LET p == currentPlayer(gs)
        cards == SelectSeq(p.hand, LAMBDA c : c \in SeqToSet(sel))
        newHand == SelectSeq(p.hand, LAMBDA c : c \notin SeqToSet(sel))
    IN  IF TossOutcome(gs, sel) # "ok" THEN gs
        ELSE [gs EXCEPT !.players = SetHand(@, p.id, newHand, "Tossed"),
                        !.pendingToss = cards,
                        !.phase = "PLAYER_TOSSING_DRAW",
                        !.tossedThisTurn = TRUE,
                        !.turnLog = Append(@, "tossed a pair")]

DiscardOutcome(gs, sel) ==
    IF Len(sel) # 1 THEN "rejected"
    ELSE IF sel[1] \notin SeqToSet(currentPlayer(gs).hand) THEN "rejected"
    ELSE "ok"

\* a discard that leaves the phase at PLAYER_TURN_START
handleDiscardKeepsPhase(gs, sel) ==
    LET p == currentPlayer(gs)
        newHand == SelectSeq(p.hand, LAMBDA c : c # sel[1])
    IN  IF DiscardOutcome(gs, sel) # "ok" THEN gs
        ELSE [gs EXCEPT !.players = SetHand(@, p.id, newHand, "Discarded"),
                        !.pendingDiscard = sel[1],
                        !.lastDiscardedId = sel[1],
                        !.turnLog = Append(@, "discarded")]

\* a discard that leaves the card in the hand as well
handleDiscardKeepsCard(gs, sel) ==
    LET p == currentPlayer(gs)
    IN  IF DiscardOutcome(gs, sel) # "ok" THEN gs
        ELSE [gs EXCEPT !.players = SetHand(@, p.id, p.hand, "Discarded"),
                        !.pendingDiscard = sel[1],
                        !.lastDiscardedId = sel[1],
                        !.phase = "PLAYER_DRAW",
                        !.turnLog = Append(@, "discarded")]

handleDiscard(gs, sel) ==
    LET p == currentPlayer(gs)
        newHand == SelectSeq(p.hand, LAMBDA c : c # sel[1])
    IN  IF DiscardOutcome(gs, sel) # "ok" THEN gs
        ELSE [gs EXCEPT !.players = SetHand(@, p.id, newHand, "Discarded"),
                        !.pendingDiscard = sel[1],
                        !.lastDiscardedId = sel[1],
                        !.phase = "PLAYER_DRAW",
                        !.turnLog = Append(@, "discarded")]

\* a turn end that leaves the active seat where it is
finishTurnNoAdvance(gs, playerId, newHand, openDeck, deck, actionLog) ==
    [gs EXCEPT !.players = SetHand(@, playerId, newHand, "Ended Turn"),
               !.openDeck = openDeck,
               !.deck = deck,
               !.phase = "PLAYER_TURN_START",
               !.turnLog = Append(@, actionLog),
               !.lastDiscardedId = NoCard,
               !.tossedThisTurn = FALSE,
               !.pendingDiscard = NoCard,
               !.pendingToss = <<>>]

\* a turn end that leaves the phase where it is
finishTurnKeepsPhase(gs, playerId, newHand, openDeck, deck, actionLog) ==
    [gs EXCEPT !.players = SetHand(@, playerId, newHand, "Ended Turn"),
               !.openDeck = openDeck,
               !.deck = deck,
               !.currentPlayerIndex = (gs.currentPlayerIndex + 1) % Len(gs.players),
               !.turnLog = Append(@, actionLog),
               !.lastDiscardedId = NoCard,
               !.tossedThisTurn = FALSE,
               !.pendingDiscard = NoCard,
               !.pendingToss = <<>>]

\* a turn end that leaves the last-discarded marker in place
finishTurnKeepsMarker(gs, playerId, newHand, openDeck, deck, actionLog) ==
    [gs EXCEPT !.players = SetHand(@, playerId, newHand, "Ended Turn"),
               !.openDeck = openDeck,
               !.deck = deck,
               !.currentPlayerIndex = (gs.currentPlayerIndex + 1) % Len(gs.players),
               !.phase = "PLAYER_TURN_START",
               !.turnLog = Append(@, actionLog),
               !.tossedThisTurn = FALSE,
               !.pendingDiscard = NoCard,
               !.pendingToss = <<>>]

finishTurn(gs, playerId, newHand, openDeck, deck, actionLog) ==
    [gs EXCEPT !.players = SetHand(@, playerId, newHand, "Ended Turn"),
               !.openDeck = openDeck,
               !.deck = deck,
               !.currentPlayerIndex = (gs.currentPlayerIndex + 1) % Len(gs.players),
               !.phase = "PLAYER_TURN_START",
               !.turnLog = Append(@, actionLog),
               !.lastDiscardedId = NoCard,
               !.tossedThisTurn = FALSE,
               !.pendingDiscard = NoCard,
               !.pendingToss = <<>>]

\* a recycle that shuffles the whole discard pile back, top card included
RecycleWholePile(openDeck, seed) ==
    [deck |-> shuffleDeck(openDeck, RandomStream(seed, Len(openDeck))),
     openDeck |-> <<>>]

\* the recycle branch: keep the top card, shuffle the rest back into the deck
RecyclePiles(openDeck, seed) ==
    [deck |-> shuffleDeck(Front(openDeck), RandomStream(seed, Len(openDeck) - 1)),
     openDeck |-> <<Last(openDeck)>>]

\* a reclaim check with the comparison inverted
DrawOutcomeInverted(gs, source) ==
    IF source = "OPEN"
    THEN IF /\ gs.phase = "PLAYER_DRAW"
            /\ gs.openDeck # <<>>
            /\ Last(gs.openDeck) # gs.lastDiscardedId
         THEN "reclaim" ELSE "ok"
    ELSE IF gs.deck # <<>> THEN "ok"
    ELSE IF Len(gs.openDeck) > 1 THEN "recycle"
    ELSE "deadlock"

\* "reclaim" (rejected), "deadlock" (handleShow is called), "recycle" or "ok"
DrawOutcome(gs, source) ==
    IF source = "OPEN"
    THEN IF /\ gs.phase = "PLAYER_DRAW"
            /\ gs.openDeck # <<>>
            /\ Last(gs.openDeck) = gs.lastDiscardedId
         THEN "reclaim" ELSE "ok"
    ELSE IF gs.deck # <<>> THEN "ok"
    ELSE IF Len(gs.openDeck) > 1 THEN "recycle"
    ELSE "deadlock"

\* a commit that forgets the tossed pair
CommitPendingDiscardOnly(gs, openDeck) ==
    openDeck \o (IF gs.pendingDiscard # NoCard THEN <<gs.pendingDiscard>> ELSE <<>>)

CommitPending(gs, openDeck) ==
    openDeck \o gs.pendingToss
             \o (IF gs.pendingDiscard # NoCard THEN <<gs.pendingDiscard>> ELSE <<>>)

\* a draw that leaves the pending cards out of the discard pile
handleDrawDropsPending(gs, source, seed) ==
    LET p == currentPlayer(gs)
        outcome == DrawOutcome(gs, source)
        piles == IF outcome = "recycle" THEN RecyclePiles(gs.openDeck, seed)
                 ELSE [deck |-> gs.deck, openDeck |-> gs.openDeck]
        drawnCard == IF source = "OPEN"
                     THEN IF gs.openDeck # <<>> THEN Last(gs.openDeck) ELSE NoCard
                     ELSE Head(piles.deck)
        newOpenDeck == IF source = "OPEN"
                       THEN IF gs.openDeck # <<>> THEN Front(gs.openDeck) ELSE <<>>
                       ELSE piles.openDeck
        newDeck == IF source = "OPEN" THEN gs.deck ELSE Tail(piles.deck)
    IN  IF outcome = "reclaim" THEN gs
        ELSE IF outcome = "deadlock" THEN handleShow(gs)
        ELSE finishTurn(gs, p.id, Append(p.hand, drawnCard), newOpenDeck, newDeck,
                        IF source = "OPEN" THEN "Drew from Open Pile" ELSE "Drew from Deck")

handleDraw(gs, source, seed) ==
    LET p == currentPlayer(gs)
        outcome == DrawOutcome(gs, source)
        piles == IF outcome = "recycle" THEN RecyclePiles(gs.openDeck, seed)
                 ELSE [deck |-> gs.deck, openDeck |-> gs.openDeck]
        \* newOpenDeck.pop() of an empty pile is undefined
        drawnCard == IF source = "OPEN"
                     THEN IF gs.openDeck # <<>> THEN Last(gs.openDeck) ELSE NoCard
                     ELSE Head(piles.deck)
        newOpenDeck == IF source = "OPEN"
                       THEN IF gs.openDeck # <<>> THEN Front(gs.openDeck) ELSE <<>>
                       ELSE piles.openDeck
        newDeck == IF source = "OPEN" THEN gs.deck ELSE Tail(piles.deck)
    IN  IF outcome = "reclaim" THEN gs
        ELSE IF outcome = "deadlock" THEN handleShow(gs)
        ELSE finishTurn(gs, p.id, Append(p.hand, drawnCard),
                        CommitPending(gs, newOpenDeck), newDeck,
                        IF source = "OPEN" THEN "Drew from Open Pile" ELSE "Drew from Deck")

----------------------------------------------------------------------------
(* App.tsx: the bot effect *)

BotHand(players, id, newHand) ==
    [i \in DOMAIN players |->
        IF players[i].id = id THEN [players[i] EXCEPT !.hand = newHand] ELSE players[i]]

BotShow(gs) ==
    LET results == getRoundScores(gs.players, gs.currentPlayerIndex, gs.roundJoker)
        p == currentPlayer(gs)
    IN  [gs EXCEPT
            !.players = [i \in DOMAIN gs.players |->
                [gs.players[i] EXCEPT
                    !.score = RoundScoreOf(results, gs.players[i].id),
                    !.totalScore = @ + RoundScoreOf(results, gs.players[i].id),
                    !.wasCaller = (gs.players[i].id = p.id)]],
            !.phase = "ROUND_END"]

BotToss(gs, cardIds) ==
    LET p == currentPlayer(gs)
    IN  [gs EXCEPT
            !.players = BotHand(@, p.id, SelectSeq(p.hand, LAMBDA c : c \notin SeqToSet(cardIds))),
            !.pendingToss = SelectSeq(p.hand, LAMBDA c : c \in SeqToSet(cardIds)),
            !.phase = "PLAYER_TOSSING_DRAW",
            !.tossedThisTurn = TRUE]

BotDiscard(gs, cardIds) ==
    LET p == currentPlayer(gs)
    IN  [gs EXCEPT
            !.players = BotHand(@, p.id, SelectSeq(p.hand, LAMBDA c : c # cardIds[1])),
            !.pendingDiscard = cardIds[1],
            !.lastDiscardedId = cardIds[1],
            !.phase = "PLAYER_DRAW"]

\* "ok", "recycle" or "deadlock" (the effect returns without setting state)
BotDrawOutcome(gs) ==
    IF gs.deck # <<>> THEN "ok"
    ELSE IF Len(gs.openDeck) > 1 THEN "recycle"
    ELSE "deadlock"

BotDraw(gs, seed) ==
    LET p == currentPlayer(gs)
        recycled == shuffleDeck(Front(gs.openDeck), RandomStream(seed, Len(gs.openDeck) - 1))
        deck0 == IF gs.deck = <<>> THEN recycled ELSE gs.deck
        open0 == IF gs.deck = <<>> THEN <<Last(gs.openDeck)>> ELSE gs.openDeck
        drawn == Head(deck0)
        open1 == IF gs.pendingToss # <<>> THEN open0 \o gs.pendingToss ELSE open0
        open2 == IF gs.pendingDiscard # NoCard THEN Append(open1, gs.pendingDiscard) ELSE open1
    IN  IF BotDrawOutcome(gs) = "deadlock" THEN gs
        ELSE [gs EXCEPT
                !.players = BotHand(@, p.id, Append(p.hand, drawn)),
                !.deck = Tail(deck0),
                !.openDeck = open2,
                !.pendingToss = <<>>,
                !.pendingDiscard = NoCard,
                !.currentPlayerIndex = (gs.currentPlayerIndex + 1) % Len(gs.players),
                !.phase = "PLAYER_TURN_START",
                !.tossedThisTurn = FALSE,
                !.lastDiscardedId = NoCard]

BotEffect(gs, seed) ==
    IF gs.phase = "PLAYER_TURN_START"
    THEN LET action == decideBotAction(currentPlayer(gs), gs.roundJoker, gs.tossedThisTurn)
         IN  IF action.type = "SHOW" THEN BotShow(gs)
             ELSE IF action.type = "TOSS" THEN BotToss(gs, action.cardIds)
             ELSE BotDiscard(gs, action.cardIds)
    ELSE IF gs.phase \in DrawPhases THEN BotDraw(gs, seed)
    ELSE gs

----------------------------------------------------------------------------
(* services/online.ts and the replication code of App.tsx *)

\* updateGameState: the row after the update
\* a write of game_state that leaves the status column as it is
updateGameStateKeepsStatus(row, newState) ==
    [row EXCEPT !.game_state = <<newState>>]

updateGameState(row, newState) ==
    [row EXCEPT !.game_state = <<newState>>,
                !.status = IF newState.phase = "MATCH_END" THEN "FINISHED" ELSE "PLAYING"]

\* syncOnlineState: does this participant push after a local action
syncOnlineState(gs, hasRoomCode) == gs.gameMode \in OnlineModes /\ hasRoomCode

effectiveMode(myId) == IF myId = 0 THEN "ONLINE_HOST" ELSE "ONLINE_CLIENT"

\* a subscription callback that leaves the lobby but keeps the local snapshot
OnRoomUpdateKeepsLocal(gs, inLobby, lobbyPlayers, myId, roomData) ==
    [gameState |-> gs,
     isOnlineLobby |-> IF roomData.status = "WAITING" THEN inLobby ELSE FALSE,
     onlineLobbyPlayers |-> lobbyPlayers]

\* a receipt that keeps the local turn log when it is the longer one
OnRoomUpdateKeepsLog(gs, inLobby, lobbyPlayers, myId, roomData) ==
    IF roomData.status \in {"PLAYING", "FINISHED"} /\ roomData.game_state # <<>>
    THEN [gameState |->
             [roomData.game_state[1] EXCEPT
                 !.gameMode = effectiveMode(myId),
                 !.turnLog = IF Len(gs.turnLog) > Len(@) THEN gs.turnLog ELSE @],
          isOnlineLobby |-> FALSE,
          onlineLobbyPlayers |-> lobbyPlayers]
    ELSE [gameState |-> gs, isOnlineLobby |-> inLobby, onlineLobbyPlayers |-> lobbyPlayers]

\* a receipt that notes itself in the turn log
OnRoomUpdateLogsReceipt(gs, inLobby, lobbyPlayers, myId, roomData) ==
    IF roomData.status \in {"PLAYING", "FINISHED"} /\ roomData.game_state # <<>>
    THEN [gameState |->
             [roomData.game_state[1] EXCEPT
                 !.gameMode = effectiveMode(myId),
                 !.turnLog = IF gs.turnLog = @ THEN Append(@, "synced") ELSE @],
          isOnlineLobby |-> FALSE,
          onlineLobbyPlayers |-> lobbyPlayers]
    ELSE [gameState |-> gs, isOnlineLobby |-> inLobby, onlineLobbyPlayers |-> lobbyPlayers]

\* the subscription callback: what it sets from the UPDATE event's row
OnRoomUpdate(gs, inLobby, lobbyPlayers, myId, roomData) ==
    IF roomData.status = "WAITING"
    THEN IF ~inLobby /\ gs.gameMode # "NONE"
         THEN [gameState |-> [gs EXCEPT !.gameMode = effectiveMode(myId)],
               isOnlineLobby |-> TRUE,
               onlineLobbyPlayers |-> roomData.players]
         ELSE [gameState |-> gs, isOnlineLobby |-> inLobby,
               onlineLobbyPlayers |-> roomData.players]
    ELSE IF roomData.status \in {"PLAYING", "FINISHED"} /\ roomData.game_state # <<>>
    THEN [gameState |-> [roomData.game_state[1] EXCEPT !.gameMode = effectiveMode(myId)],
          isOnlineLobby |-> FALSE,
          onlineLobbyPlayers |-> lobbyPlayers]
    ELSE [gameState |-> gs, isOnlineLobby |-> inLobby, onlineLobbyPlayers |-> lobbyPlayers]

----------------------------------------------------------------------------
(* What the screen offers: the render conditions of the controls *)

GameScreen(p) ==
    /\ ~isOnlineLobby[p]
    /\ gameState[p].gameMode # "NONE"
    /\ gameState[p].phase # "SETUP"
    /\ gameState[p].players # <<>>
    /\ ~isTransitioning[p]

MyTurn(p) == isPlayerTurn(gameState[p], isTransitioning[p], myOnlineId[p])

\* action buttons offered in every phase of the player's turn
ActionButtonsAnyPhase(p) == GameScreen(p) /\ MyTurn(p)

\* TOSS, DISCARD and SHOW are rendered in PLAYER_TURN_START on the player's turn
ActionButtonsShown(p) ==
    GameScreen(p) /\ MyTurn(p) /\ gameState[p].phase = "PLAYER_TURN_START"

\* the draw pile is clickable while it holds cards, in a draw phase, on the player's turn
DrawPileClickable(p) ==
    /\ GameScreen(p)
    /\ gameState[p].deck # <<>>
    /\ MyTurn(p)
    /\ gameState[p].phase \in DrawPhases

OpenPileClickable(p) ==
    /\ GameScreen(p)
    /\ gameState[p].openDeck # <<>>
    /\ MyTurn(p)
    /\ gameState[p].phase \in DrawPhases

\* a round-end modal that offers Next Round to every seat
NextRoundShownAnySeat(p) ==
    /\ GameScreen(p)
    /\ gameState[p].phase = "ROUND_END"

\* Next Round: in the round-end modal, for the host or a local player
NextRoundShown(p) ==
    /\ GameScreen(p)
    /\ gameState[p].phase = "ROUND_END"
    /\ (gameState[p].gameMode \notin OnlineModes \/ myOnlineId[p] = 0)

StepBound(p) == IF gameState[p].gameMode \in OnlineModes THEN MaxOnlineSteps ELSE MaxSteps

SeatIds == 0 .. 9

TotalRoundsChoices == {r \in RoundOptions : r <= MaxTotalRounds}

----------------------------------------------------------------------------
(* Actions *)

Op(op, p, res) == [op |-> op, by |-> p, res |-> res]

\* a run is followed up to its MaxRejected-th rejected attempt, which changes
\* nothing but the history
Running == hist.rejected < MaxRejected

\* setGameState(newState) followed by syncOnlineState(newState); the round-end
\* modal sorts newState.players in place before the request body is serialised
SetAndSync(p, newState) ==
    /\ gameState' = [gameState EXCEPT ![p] = Render(newState)]
    /\ pushes' = IF syncOnlineState(gameState[p], roomCode[p])
                 THEN pushes \cup {[by |-> p, state |-> Render(newState)]}
                 ELSE pushes

NoGameChange == UNCHANGED <<gameState, pushes, selectedCardIds, isTransitioning, steps>>

Static == UNCHANGED <<myOnlineId, roomCode, onlineLobbyPlayers, setupPlayerCount, session, joining, deckKind>>

\* startSinglePlayerMatch(rounds) and the effect that starts round 1
StartSinglePlayerMatch(p, rounds, seed, jokerSeed) ==
    LET gs == [gameState[p] EXCEPT !.gameMode = "SINGLE_PLAYER", !.phase = "SETUP"]
        newState == startRound(gs, 1, <<>>, "SINGLE_PLAYER", rounds,
                               setupPlayerCount[p], deckKind, seed, jokerSeed)
    IN  /\ Running
        /\ gameState[p].gameMode = "NONE"
        /\ ~roomCode[p]
        /\ HasDeck(deckKind, SinglePlayerSeats)
        /\ gameState' = [gameState EXCEPT ![p] = newState]
        /\ selectedTotalRounds' = [selectedTotalRounds EXCEPT ![p] = rounds]
        /\ selectedCardIds' = [selectedCardIds EXCEPT ![p] = <<>>]
        /\ isTransitioning' = [isTransitioning EXCEPT ![p] = FALSE]
        /\ hist' = [hist EXCEPT !.lastOp = Op("start_single", p, "ok"),
                                !.startIndex = newState.currentPlayerIndex,
                                !.completedTurns = 0,
                                !.turnTosses = 0,
                                !.tosses = [i \in SeatIds |-> 0]]
        /\ UNCHANGED <<myOnlineId, roomCode, isOnlineLobby, onlineLobbyPlayers,
                       setupPlayerCount, room, pushes, inbox, session, joining, deckKind, steps>>

\* initMultiplayerSetup(count), the round buttons, finalizeMultiplayerStart
\* and the effect that starts round 1
StartMultiplayerMatch(p, count, rounds, seed, jokerSeed) ==
    LET gs == [gameState[p] EXCEPT !.gameMode = "MULTIPLAYER", !.phase = "SETUP"]
        newState == startRound(gs, 1, <<>>, "MULTIPLAYER", rounds, count,
                               deckKind, seed, jokerSeed)
    IN  /\ Running
        /\ gameState[p].gameMode = "NONE"
        /\ ~roomCode[p]
        /\ HasDeck(deckKind, count)
        /\ gameState' = [gameState EXCEPT ![p] = newState]
        /\ setupPlayerCount' = [setupPlayerCount EXCEPT ![p] = count]
        /\ selectedTotalRounds' = [selectedTotalRounds EXCEPT ![p] = rounds]
        /\ selectedCardIds' = [selectedCardIds EXCEPT ![p] = <<>>]
        /\ isTransitioning' = [isTransitioning EXCEPT ![p] = TRUE]
        /\ hist' = [hist EXCEPT !.lastOp = Op("start_multi", p, "ok"),
                                !.startIndex = newState.currentPlayerIndex,
                                !.completedTurns = 0,
                                !.turnTosses = 0,
                                !.tosses = [i \in SeatIds |-> 0]]
        /\ UNCHANGED <<myOnlineId, roomCode, isOnlineLobby, onlineLobbyPlayers,
                       room, pushes, inbox, session, joining, deckKind, steps>>

\* the overlay's "I am ... - Ready" button
Ready(p) ==
    /\ Running
    /\ isTransitioning[p]
    /\ gameState[p].gameMode # "NONE"
    /\ isTransitioning' = [isTransitioning EXCEPT ![p] = FALSE]
    /\ hist' = [hist EXCEPT !.lastOp = Op("ready", p, "ok")]
    /\ UNCHANGED <<gameState, selectedCardIds, myOnlineId, roomCode, isOnlineLobby,
                   onlineLobbyPlayers, selectedTotalRounds, setupPlayerCount, room,
                   pushes, inbox, session, joining, deckKind, steps>>

\* handleCardClick on a card of the hand shown at the bottom
handleCardClick(prev, card) ==
    IF card \in SeqToSet(prev) THEN SelectSeq(prev, LAMBDA c : c # card)
    ELSE IF Len(prev) >= 2 THEN <<prev[2], card>>
    ELSE Append(prev, card)

ClickCard(p, card) ==
    /\ Running
    /\ GameScreen(p)
    /\ card \in SeqToSet(bottomPlayer(gameState[p], myOnlineId[p]).hand)
    /\ MyTurn(p)
    /\ gameState[p].phase = "PLAYER_TURN_START"
    /\ selectedCardIds' = [selectedCardIds EXCEPT ![p] = handleCardClick(@, card)]
    /\ hist' = [hist EXCEPT !.lastOp = Op("select", p, "ok")]
    /\ UNCHANGED <<gameState, isTransitioning, myOnlineId, roomCode, isOnlineLobby,
                   onlineLobbyPlayers, selectedTotalRounds, setupPlayerCount, room,
                   pushes, inbox, session, joining, deckKind, steps>>

\* a press of TOSS
ClickToss(p) ==
    LET gs == gameState[p]
        outcome == IF ActionButtonsShown(p) THEN TossOutcome(gs, selectedCardIds[p])
                   ELSE "rejected"
    IN  /\ Running
        /\ gs.gameMode # "NONE"
        /\ outcome = "ok" => steps < StepBound(p)
        /\ IF outcome = "ok"
           THEN /\ SetAndSync(p, handleToss(gs, selectedCardIds[p]))
                /\ selectedCardIds' = [selectedCardIds EXCEPT ![p] = <<>>]
                /\ steps' = steps + 1
                /\ UNCHANGED isTransitioning
           ELSE NoGameChange
        /\ hist' = [hist EXCEPT
                      !.lastOp = Op("toss", p, outcome),
                      !.rejected = IF outcome = "ok" THEN @ ELSE @ + 1,
                      !.tosses = IF outcome = "ok"
                                 THEN [@ EXCEPT ![currentPlayer(gs).id] = @ + 1] ELSE @,
                      !.turnTosses = IF outcome = "ok" THEN @ + 1 ELSE @]
        /\ Static
        /\ UNCHANGED <<isOnlineLobby, selectedTotalRounds, room, inbox>>

\* a press of DISCARD
ClickDiscard(p) ==
    LET gs == gameState[p]
        outcome == IF ActionButtonsShown(p) THEN DiscardOutcome(gs, selectedCardIds[p])
                   ELSE "rejected"
    IN  /\ Running
        /\ gs.gameMode # "NONE"
        /\ outcome = "ok" => steps < StepBound(p)
        /\ IF outcome = "ok"
           THEN /\ SetAndSync(p, handleDiscard(gs, selectedCardIds[p]))
                /\ selectedCardIds' = [selectedCardIds EXCEPT ![p] = <<>>]
                /\ steps' = steps + 1
                /\ UNCHANGED isTransitioning
           ELSE NoGameChange
        /\ hist' = [hist EXCEPT !.lastOp = Op("discard", p, outcome),
                                !.rejected = IF outcome = "ok" THEN @ ELSE @ + 1]
        /\ Static
        /\ UNCHANGED <<isOnlineLobby, selectedTotalRounds, room, inbox>>

\* a press of SHOW
ClickShow(p) ==
    LET gs == gameState[p]
        outcome == IF ActionButtonsShown(p) /\ ~gs.tossedThisTurn THEN "ok" ELSE "rejected"
    IN  /\ Running
        /\ gs.gameMode # "NONE"
        /\ outcome = "ok" => steps < StepBound(p)
        /\ IF outcome = "ok"
           THEN /\ SetAndSync(p, handleShow(gs))
                /\ isTransitioning' = [isTransitioning EXCEPT ![p] = FALSE]
                /\ steps' = steps + 1
                /\ UNCHANGED selectedCardIds
           ELSE NoGameChange
        /\ hist' = [hist EXCEPT !.lastOp = Op("show", p, outcome),
                                !.rejected = IF outcome = "ok" THEN @ ELSE @ + 1]
        /\ Static
        /\ UNCHANGED <<isOnlineLobby, selectedTotalRounds, room, inbox>>

\* what a call of handleDraw(source) by participant p does
DoHandleDraw(p, source, seed, opName) ==
    LET gs == gameState[p]
        outcome == DrawOutcome(gs, source)
    IN  /\ IF outcome = "reclaim"
           THEN NoGameChange
           ELSE /\ SetAndSync(p, handleDraw(gs, source, seed))
                /\ isTransitioning' =
                      [isTransitioning EXCEPT ![p] =
                          IF outcome = "deadlock" THEN FALSE
                          ELSE IF gs.gameMode = "MULTIPLAYER" THEN TRUE ELSE @]
                /\ steps' = steps + 1
                /\ UNCHANGED selectedCardIds
        /\ hist' = [hist EXCEPT
                      !.lastOp = Op(opName, p, outcome),
                      !.rejected = IF outcome = "reclaim" THEN @ + 1 ELSE @,
                      !.completedTurns = IF outcome \in {"ok", "recycle"} THEN @ + 1 ELSE @,
                      !.turnTosses = IF outcome \in {"ok", "recycle"} THEN 0 ELSE @]

\* a click on the draw pile
ClickDrawPile(p) ==
    /\ Running
    /\ gameState[p].gameMode # "NONE"
    /\ DrawPileClickable(p) => steps < StepBound(p)
    /\ IF DrawPileClickable(p)
       THEN \E seed \in Seeds : DoHandleDraw(p, "DECK", seed, "draw_deck")
       ELSE /\ NoGameChange
            /\ hist' = [hist EXCEPT !.lastOp = Op("draw_deck", p, "rejected"),
                                    !.rejected = @ + 1]
    /\ Static
    /\ UNCHANGED <<isOnlineLobby, selectedTotalRounds, room, inbox>>

\* a click on the discard pile
ClickOpenPile(p) ==
    /\ Running
    /\ gameState[p].gameMode # "NONE"
    /\ OpenPileClickable(p) => steps < StepBound(p)
    /\ IF OpenPileClickable(p)
       THEN DoHandleDraw(p, "OPEN", 0, "draw_open")
       ELSE /\ NoGameChange
            /\ hist' = [hist EXCEPT !.lastOp = Op("draw_open", p, "rejected"),
                                    !.rejected = @ + 1]
    /\ Static
    /\ UNCHANGED <<isOnlineLobby, selectedTotalRounds, room, inbox>>

\* handleDraw('DECK') called on the player's turn in a draw phase with an
\* empty deck: the call the draw pile's render condition never makes
CallHandleDraw(p) ==
    /\ Running
    /\ GameScreen(p)
    /\ MyTurn(p)
    /\ gameState[p].phase \in DrawPhases
    /\ gameState[p].deck = <<>>
    /\ steps < StepBound(p)
    /\ \E seed \in Seeds : DoHandleDraw(p, "DECK", seed, "call_draw")
    /\ Static
    /\ UNCHANGED <<isOnlineLobby, selectedTotalRounds, room, inbox>>

\* one run of the bot effect's timeout
BotStep(p) ==
    LET gs == gameState[p]
        res == IF gs.phase = "PLAYER_TURN_START"
               THEN decideBotAction(currentPlayer(gs), gs.roundJoker, gs.tossedThisTurn).type
               ELSE IF gs.phase \in DrawPhases THEN BotDrawOutcome(gs)
               ELSE "none"
        changes == res \notin {"deadlock", "none"}
    IN  /\ Running
        /\ isBotThinking(gs, isTransitioning[p])
        /\ changes => steps < StepBound(p)
        /\ \E seed \in Seeds :
              gameState' = [gameState EXCEPT ![p] = Render(BotEffect(gs, seed))]
        /\ steps' = IF changes THEN steps + 1 ELSE steps
        /\ hist' = [hist EXCEPT
                      !.lastOp = Op("bot", p, res),
                      !.tosses = IF res = "TOSS"
                                 THEN [@ EXCEPT ![currentPlayer(gs).id] = @ + 1] ELSE @,
                      !.completedTurns = IF res \in {"ok", "recycle"} THEN @ + 1 ELSE @,
                      !.turnTosses = IF res \in {"ok", "recycle"} THEN 0
                                     ELSE IF res = "TOSS" THEN @ + 1 ELSE @]
        /\ Static
        /\ UNCHANGED <<selectedCardIds, isTransitioning, isOnlineLobby,
                       selectedTotalRounds, room, pushes, inbox>>

\* a press of Next Round / See Final Results: nextRound
ClickNextRound(p) ==
    LET gs == gameState[p]
        starts == NextRoundShown(p) /\ gs.roundNumber < gs.totalRounds
    IN  /\ Running
        /\ gs.gameMode # "NONE"
        /\ starts => steps < StepBound(p)
        /\ IF starts
           THEN \E seed, jokerSeed \in Seeds :
                  LET newState == startRound(gs, gs.roundNumber + 1, gs.players, gs.gameMode,
                                             selectedTotalRounds[p], setupPlayerCount[p],
                                             deckKind, seed, jokerSeed)
                  IN  /\ gameState' = [gameState EXCEPT ![p] = newState]
                      /\ pushes' = IF gs.gameMode = "ONLINE_HOST"
                                   THEN pushes \cup {[by |-> p, state |-> newState]}
                                   ELSE pushes
                      /\ selectedCardIds' = [selectedCardIds EXCEPT ![p] = <<>>]
                      /\ isTransitioning' =
                            [isTransitioning EXCEPT ![p] = (gs.gameMode = "MULTIPLAYER")]
                      /\ steps' = steps + 1
                      /\ hist' = [hist EXCEPT !.lastOp = Op("next_round", p, "ok"),
                                              !.startIndex = newState.currentPlayerIndex,
                                              !.completedTurns = 0,
                                              !.turnTosses = 0,
                                              !.tosses = [i \in SeatIds |-> 0]]
           ELSE /\ NoGameChange
                /\ hist' = [hist EXCEPT !.lastOp = Op("next_round", p,
                               IF NextRoundShown(p) THEN "last_round" ELSE "rejected"),
                                    !.rejected = @ + 1]
        /\ Static
        /\ UNCHANGED <<isOnlineLobby, selectedTotalRounds, room, inbox>>

----------------------------------------------------------------------------
(* Local play: one browser, single player or pass-and-play *)

Me == 0

\* localStorage[SESSION_KEY]: absent, or the room code and seat id saved by
\* saveSession (one room is modelled, so the code is the flag that it is held)
NoSession == [code |-> FALSE, playerId |-> NoSeat]
SavedSession(id) == [code |-> TRUE, playerId |-> id]

NoRoom == [players |-> <<>>, status |-> "ABSENT", game_state |-> <<>>]

InitHist == [lastOp |-> Op("init", Me, "ok"), startIndex |-> 0, completedTurns |-> 0,
             tosses |-> [i \in SeatIds |-> 0], turnTosses |-> 0, rejected |-> 0,
             starts |-> 0, reloads |-> 0, lost |-> 0]

\* the state after the component's useState initialisers
InitApp ==
    /\ gameState = [p \in Participants |-> InitialGameState]
    /\ selectedCardIds = [p \in Participants |-> <<>>]
    /\ isTransitioning = [p \in Participants |-> FALSE]
    /\ myOnlineId = [p \in Participants |-> NoSeat]
    /\ roomCode = [p \in Participants |-> FALSE]
    /\ isOnlineLobby = [p \in Participants |-> FALSE]
    /\ onlineLobbyPlayers = [p \in Participants |-> <<>>]
    /\ selectedTotalRounds = [p \in Participants |-> DEFAULT_TOTAL_ROUNDS]
    /\ setupPlayerCount = [p \in Participants |-> SinglePlayerSeats]
    /\ room = NoRoom
    /\ pushes = {}
    /\ inbox = [p \in Participants |-> <<>>]
    /\ session = [p \in Participants |-> NoSession]
    /\ joining = [p \in Participants |-> <<>>]
    /\ steps = 0
    /\ hist = InitHist

Init == InitApp /\ deckKind = "legal"

InitEngine == InitApp /\ deckKind \in {"legal", "short"}

MultiplayerCounts == 2 .. MaxPlayers

Next ==
    \/ \E rounds \in TotalRoundsChoices, seed, jokerSeed \in Seeds :
          StartSinglePlayerMatch(Me, rounds, seed, jokerSeed)
    \/ \E count \in MultiplayerCounts, rounds \in TotalRoundsChoices, seed, jokerSeed \in Seeds :
          StartMultiplayerMatch(Me, count, rounds, seed, jokerSeed)
    \/ Ready(Me)
    \/ \E card \in 0 .. (DeckSize(Len(RANKS)) - 1) : ClickCard(Me, card)
    \/ ClickToss(Me)
    \/ ClickDiscard(Me)
    \/ ClickShow(Me)
    \/ ClickDrawPile(Me)
    \/ ClickOpenPile(Me)
    \/ BotStep(Me)
    \/ ClickNextRound(Me)

Spec == Init /\ [][Next]_vars

NextEngine == Next \/ CallHandleDraw(Me)

SpecEngine == InitEngine /\ [][NextEngine]_vars

----------------------------------------------------------------------------
(* Online play: a host and its clients in one room *)

LobbyList == [i \in 1 .. NumParticipants |-> i - 1]

\* the room's lobby after handleCreateOnlineGame by participant 0 and
\* handleJoinOnlineGame by the others, every lobby update received
InitOnline ==
    /\ gameState = [p \in Participants |->
                      [InitialGameState EXCEPT !.gameMode = effectiveMode(p)]]
    /\ selectedCardIds = [p \in Participants |-> <<>>]
    /\ isTransitioning = [p \in Participants |-> FALSE]
    /\ myOnlineId = [p \in Participants |-> p]
    /\ roomCode = [p \in Participants |-> TRUE]
    /\ isOnlineLobby = [p \in Participants |-> TRUE]
    /\ onlineLobbyPlayers = [p \in Participants |-> LobbyList]
    /\ selectedTotalRounds = [p \in Participants |-> DEFAULT_TOTAL_ROUNDS]
    /\ setupPlayerCount = [p \in Participants |-> SinglePlayerSeats]
    /\ room = [players |-> LobbyList, status |-> "WAITING", game_state |-> <<>>]
    /\ pushes = {}
    /\ inbox = [p \in Participants |-> <<>>]
    /\ session = [p \in Participants |-> SavedSession(p)]
    /\ joining = [p \in Participants |-> <<>>]
    /\ deckKind = "legal"
    /\ steps = 0
    /\ hist = InitHist

\* the lobby's round buttons and Start Game: startOnlineGame
StartOnlineGame(p, rounds, seed, jokerSeed) ==
    LET players == [i \in DOMAIN onlineLobbyPlayers[p] |->
                       NewPlayer(onlineLobbyPlayers[p][i], FALSE, "Joined")]
        newState == startRound(gameState[p], 1, players, "ONLINE_HOST", rounds,
                               setupPlayerCount[p], deckKind, seed, jokerSeed)
    IN  /\ Running
        /\ isOnlineLobby[p]
        /\ myOnlineId[p] = 0
        /\ Len(onlineLobbyPlayers[p]) >= 2
        /\ steps < MaxOnlineSteps
        /\ hist.starts < MaxStarts
        /\ gameState' = [gameState EXCEPT ![p] = newState]
        /\ pushes' = pushes \cup {[by |-> p, state |-> newState]}
        /\ selectedTotalRounds' = [selectedTotalRounds EXCEPT ![p] = rounds]
        /\ selectedCardIds' = [selectedCardIds EXCEPT ![p] = <<>>]
        /\ isTransitioning' = [isTransitioning EXCEPT ![p] = FALSE]
        /\ steps' = steps + 1
        /\ hist' = [hist EXCEPT !.lastOp = Op("start_online", p, "ok"),
                                !.starts = @ + 1,
                                !.startIndex = newState.currentPlayerIndex,
                                !.completedTurns = 0,
                                !.turnTosses = 0,
                                !.tosses = [i \in SeatIds |-> 0]]
        /\ UNCHANGED <<myOnlineId, roomCode, isOnlineLobby, onlineLobbyPlayers,
                       setupPlayerCount, room, inbox, session, joining, deckKind>>

\* an updateGameState request reaches the rooms table; the UPDATE event goes
\* out to every subscribed participant
PushArrive(q) ==
    /\ Running
    /\ q \in pushes
    /\ pushes' = pushes \ {q}
    /\ room' = updateGameState(room, q.state)
    /\ inbox' = [p \in Participants |->
                    IF roomCode[p] THEN Append(inbox[p], room') ELSE inbox[p]]
    /\ hist' = [hist EXCEPT !.lastOp = Op("push_arrive", q.by, "ok")]
    /\ UNCHANGED <<gameState, selectedCardIds, isTransitioning, myOnlineId, roomCode,
                   isOnlineLobby, onlineLobbyPlayers, selectedTotalRounds,
                   setupPlayerCount, session, joining, deckKind, steps>>

\* a participant's subscription callback runs on the oldest undelivered event
Deliver(p) ==
    LET set == OnRoomUpdate(gameState[p], isOnlineLobby[p], onlineLobbyPlayers[p],
                            myOnlineId[p], Head(inbox[p]))
    IN  /\ Running
        /\ inbox[p] # <<>>
        /\ inbox' = [inbox EXCEPT ![p] = Tail(@)]
        /\ gameState' = [gameState EXCEPT ![p] = Render(set.gameState)]
        /\ isOnlineLobby' = [isOnlineLobby EXCEPT ![p] = set.isOnlineLobby]
        /\ onlineLobbyPlayers' = [onlineLobbyPlayers EXCEPT ![p] = set.onlineLobbyPlayers]
        /\ hist' = [hist EXCEPT !.lastOp = Op("deliver", p, "ok")]
        /\ UNCHANGED <<selectedCardIds, isTransitioning, myOnlineId, roomCode,
                       selectedTotalRounds, setupPlayerCount, room, pushes, session, joining, deckKind, steps>>

NextOnline ==
    \/ \E rounds \in TotalRoundsChoices, seed \in Seeds :
          StartOnlineGame(Me, rounds, seed, seed)
    \/ \E p \in Participants, card \in 0 .. (DeckSize(Len(RANKS)) - 1) : ClickCard(p, card)
    \/ \E p \in Participants : ClickToss(p)
    \/ \E p \in Participants : ClickDiscard(p)
    \/ \E p \in Participants : ClickShow(p)
    \/ \E p \in Participants : ClickDrawPile(p)
    \/ \E p \in Participants : ClickOpenPile(p)
    \/ \E p \in Participants : ClickNextRound(p)
    \/ \E q \in pushes : PushArrive(q)
    \/ \E p \in Participants : Deliver(p)

SpecOnline == InitOnline /\ [][NextOnline]_vars

\* local and online play side by side
SpecAll == (Init \/ InitOnline) /\ [][Next \/ NextOnline]_vars

----------------------------------------------------------------------------
(* Online play with writes that fail *)

MaxLost == 1

\* a failed write that has stored the snapshot all the same
updateFailedWritesState(row, newState) ==
    [row EXCEPT !.game_state = <<newState>>]

\* the row after an update request that failed: supabase resolves with an
\* error, or the request never arrives; updateGameState does not read the
\* result
updateFailed(row, newState) == row

\* an updateGameState request fails: nothing is written and no event goes out;
\* syncOnlineState has no catch and no retry, the handler has already set the
\* local state
PushFail(q) ==
    /\ Running
    /\ q \in pushes
    /\ hist.lost < MaxLost
    /\ pushes' = pushes \ {q}
    /\ room' = updateFailed(room, q.state)
    /\ hist' = [hist EXCEPT !.lastOp = Op("push_fail", q.by, "lost"), !.lost = @ + 1]
    /\ UNCHANGED <<gameState, selectedCardIds, isTransitioning, myOnlineId, roomCode,
                   isOnlineLobby, onlineLobbyPlayers, selectedTotalRounds,
                   setupPlayerCount, inbox, session, joining, deckKind, steps>>

NextLossy ==
    \/ NextOnline
    \/ \E q \in pushes : PushFail(q)

SpecLossy == InitOnline /\ [][NextLossy]_vars

----------------------------------------------------------------------------
(* Rooms and sessions: creating, joining, reloading the page *)

MaxRoomPlayers == 7
MaxReloads == 1

\* a lobby opened and filled from browsers that are not modelled
GhostLobby(n) ==
    [players |-> [i \in 1 .. n |-> i - 1], status |-> "WAITING", game_state |-> <<>>]

SessionRooms == {NoRoom, GhostLobby(MaxRoomPlayers - 1), GhostLobby(MaxRoomPlayers)}

\* a join that does not look at the room's status
JoinOutcomeAnyStatus(row) ==
    IF row.status = "ABSENT" THEN "not_found"
    ELSE IF Len(row.players) >= MaxRoomPlayers THEN "full"
    ELSE "ok"

\* joinRoom, step 1: the checks made on the fetched row
JoinOutcome(row) ==
    IF row.status = "ABSENT" THEN "not_found"
    ELSE IF row.status # "WAITING" THEN "started"
    ELSE IF Len(row.players) >= MaxRoomPlayers THEN "full"
    ELSE "ok"

\* joinRoom, step 2: the seat id and the players list written back
joinRoomPlayers(row) == Append(row.players, Len(row.players))

\* what the component holds after its useState initialisers
FreshTab(saved) ==
    [session |-> saved, roomCode |-> FALSE, myOnlineId |-> NoSeat,
     isOnlineLobby |-> FALSE, onlineLobbyPlayers |-> <<>>,
     gameState |-> InitialGameState]

\* a session check that keeps the saved session when the room cannot be read
checkSessionKeepsSession(saved, fetched, row) ==
    IF ~saved.code \/ ~fetched \/ row.status = "ABSENT" THEN FreshTab(saved)
    ELSE IF row.status = "WAITING"
    THEN [FreshTab(saved) EXCEPT
             !.roomCode = TRUE, !.myOnlineId = saved.playerId,
             !.onlineLobbyPlayers = row.players, !.isOnlineLobby = TRUE,
             !.gameState = [InitialGameState EXCEPT
                               !.gameMode = effectiveMode(saved.playerId)]]
    ELSE IF row.game_state # <<>>
    THEN [FreshTab(saved) EXCEPT
             !.roomCode = TRUE, !.myOnlineId = saved.playerId,
             !.gameState = [row.game_state[1] EXCEPT
                               !.gameMode = effectiveMode(saved.playerId)]]
    ELSE [FreshTab(saved) EXCEPT !.roomCode = TRUE, !.myOnlineId = saved.playerId]

\* checkSession, run once when the component mounts: saved is the content of
\* localStorage, fetched tells whether getRoomData answered without an error,
\* row is the room it read
checkSession(saved, fetched, row) ==
    IF ~saved.code THEN FreshTab(saved)
    ELSE IF ~fetched \/ row.status = "ABSENT" THEN FreshTab(NoSession)
    ELSE IF row.status = "WAITING"
    THEN [FreshTab(saved) EXCEPT
             !.roomCode = TRUE, !.myOnlineId = saved.playerId,
             !.onlineLobbyPlayers = row.players, !.isOnlineLobby = TRUE,
             !.gameState = [InitialGameState EXCEPT
                               !.gameMode = effectiveMode(saved.playerId)]]
    ELSE IF row.game_state # <<>>
    THEN [FreshTab(saved) EXCEPT
             !.roomCode = TRUE, !.myOnlineId = saved.playerId,
             !.gameState = [row.game_state[1] EXCEPT
                               !.gameMode = effectiveMode(saved.playerId)]]
    ELSE [FreshTab(saved) EXCEPT !.roomCode = TRUE, !.myOnlineId = saved.playerId]

\* which branch of checkSession a reload takes
ReloadBranch(saved, fetched, row) ==
    IF ~saved.code THEN "no_session"
    ELSE IF ~fetched THEN "fetch_failed"
    ELSE IF row.status = "ABSENT" THEN "no_room"
    ELSE IF row.status = "WAITING" THEN "lobby"
    ELSE IF row.game_state # <<>> THEN "game"
    ELSE "empty"

\* every participant is at the menu of a fresh tab; no room exists yet, or
\* other browsers hold a lobby that is full or one seat short
InitSession ==
    /\ gameState = [p \in Participants |-> InitialGameState]
    /\ selectedCardIds = [p \in Participants |-> <<>>]
    /\ isTransitioning = [p \in Participants |-> FALSE]
    /\ myOnlineId = [p \in Participants |-> NoSeat]
    /\ roomCode = [p \in Participants |-> FALSE]
    /\ isOnlineLobby = [p \in Participants |-> FALSE]
    /\ onlineLobbyPlayers = [p \in Participants |-> <<>>]
    /\ selectedTotalRounds = [p \in Participants |-> DEFAULT_TOTAL_ROUNDS]
    /\ setupPlayerCount = [p \in Participants |-> SinglePlayerSeats]
    /\ room \in SessionRooms
    /\ pushes = {}
    /\ inbox = [p \in Participants |-> <<>>]
    /\ session = [p \in Participants |-> NoSession]
    /\ joining = [p \in Participants |-> <<>>]
    /\ deckKind = "legal"
    /\ steps = 0
    /\ hist = InitHist

AtMenu(p) ==
    /\ gameState[p].gameMode = "NONE"
    /\ ~roomCode[p]
    /\ joining[p] = <<>>

\* Create Room: handleCreateOnlineGame, createRoom inserting the row
CreateOnlineGame(p) ==
    /\ Running
    /\ AtMenu(p)
    /\ room.status = "ABSENT"
    /\ room' = [players |-> <<0>>, status |-> "WAITING", game_state |-> <<>>]
    /\ roomCode' = [roomCode EXCEPT ![p] = TRUE]
    /\ myOnlineId' = [myOnlineId EXCEPT ![p] = 0]
    /\ session' = [session EXCEPT ![p] = SavedSession(0)]
    /\ onlineLobbyPlayers' = [onlineLobbyPlayers EXCEPT ![p] = <<0>>]
    /\ isOnlineLobby' = [isOnlineLobby EXCEPT ![p] = TRUE]
    /\ gameState' = [gameState EXCEPT ![p].gameMode = "ONLINE_HOST"]
    /\ selectedTotalRounds' = [selectedTotalRounds EXCEPT ![p] = DEFAULT_TOTAL_ROUNDS]
    /\ hist' = [hist EXCEPT !.lastOp = Op("create", p, "ok")]
    /\ UNCHANGED <<selectedCardIds, isTransitioning, setupPlayerCount, pushes, inbox,
                   joining, deckKind, steps>>

\* Join: handleJoinOnlineGame up to joinRoom's fetch of the row and its checks;
\* a failure is alerted and nothing is set
JoinFetch(p) ==
    LET outcome == JoinOutcome(room)
    IN  /\ Running
        /\ AtMenu(p)
        /\ IF outcome = "ok"
           THEN /\ joining' = [joining EXCEPT ![p] = <<room>>]
                /\ hist' = [hist EXCEPT !.lastOp = Op("join", p, "fetched")]
           ELSE /\ joining' = joining
                /\ hist' = [hist EXCEPT !.lastOp = Op("join", p, outcome),
                                        !.rejected = @ + 1]
        /\ UNCHANGED <<gameState, selectedCardIds, isTransitioning, myOnlineId, roomCode,
                       isOnlineLobby, onlineLobbyPlayers, selectedTotalRounds,
                       setupPlayerCount, room, pushes, inbox, session, deckKind, steps>>

\* joinRoom's update of the players column from the row it fetched, and the
\* rest of handleJoinOnlineGame; the UPDATE event goes to the subscribers
JoinUpdate(p) ==
    LET row == joining[p][1]
        updatedPlayers == joinRoomPlayers(row)
    IN  /\ Running
        /\ joining[p] # <<>>
        /\ room' = [room EXCEPT !.players = updatedPlayers]
        /\ inbox' = [q \in Participants |->
                        IF roomCode[q] THEN Append(inbox[q], room') ELSE inbox[q]]
        /\ joining' = [joining EXCEPT ![p] = <<>>]
        /\ roomCode' = [roomCode EXCEPT ![p] = TRUE]
        /\ myOnlineId' = [myOnlineId EXCEPT ![p] = Len(row.players)]
        /\ session' = [session EXCEPT ![p] = SavedSession(Len(row.players))]
        /\ onlineLobbyPlayers' = [onlineLobbyPlayers EXCEPT ![p] = updatedPlayers]
        /\ isOnlineLobby' = [isOnlineLobby EXCEPT ![p] = TRUE]
        /\ gameState' = [gameState EXCEPT ![p].gameMode = "ONLINE_CLIENT"]
        /\ hist' = [hist EXCEPT !.lastOp = Op("join_update", p, "ok")]
        /\ UNCHANGED <<selectedCardIds, isTransitioning, selectedTotalRounds,
                       setupPlayerCount, pushes, deckKind, steps>>

\* the page is reloaded: the component mounts again with its initial state,
\* the old subscription is gone, and checkSession runs
Reload(p, fetched) ==
    LET set == checkSession(session[p], fetched, room)
    IN  /\ Running
        /\ hist.reloads < MaxReloads
        /\ session' = [session EXCEPT ![p] = set.session]
        /\ roomCode' = [roomCode EXCEPT ![p] = set.roomCode]
        /\ myOnlineId' = [myOnlineId EXCEPT ![p] = set.myOnlineId]
        /\ isOnlineLobby' = [isOnlineLobby EXCEPT ![p] = set.isOnlineLobby]
        /\ onlineLobbyPlayers' = [onlineLobbyPlayers EXCEPT ![p] = set.onlineLobbyPlayers]
        /\ gameState' = [gameState EXCEPT ![p] = Render(set.gameState)]
        /\ selectedCardIds' = [selectedCardIds EXCEPT ![p] = <<>>]
        /\ isTransitioning' = [isTransitioning EXCEPT ![p] = FALSE]
        /\ selectedTotalRounds' = [selectedTotalRounds EXCEPT ![p] = DEFAULT_TOTAL_ROUNDS]
        /\ setupPlayerCount' = [setupPlayerCount EXCEPT ![p] = SinglePlayerSeats]
        /\ joining' = [joining EXCEPT ![p] = <<>>]
        /\ inbox' = [inbox EXCEPT ![p] = <<>>]
        /\ hist' = [hist EXCEPT
                      !.lastOp = Op("reload", p, ReloadBranch(session[p], fetched, room)),
                      !.reloads = @ + 1]
        /\ UNCHANGED <<room, pushes, deckKind, steps>>

NextSession ==
    \/ \E p \in Participants : CreateOnlineGame(p)
    \/ \E p \in Participants : JoinFetch(p)
    \/ \E p \in Participants : JoinUpdate(p)
    \/ \E p \in Participants, rounds \in TotalRoundsChoices, seed \in Seeds :
          StartOnlineGame(p, rounds, seed, seed)
    \/ \E p \in Participants : ClickShow(p)
    \/ \E p \in Participants : ClickNextRound(p)
    \/ \E q \in pushes : PushArrive(q)
    \/ \E p \in Participants : Deliver(p)
    \/ \E p \in Participants, fetched \in BOOLEAN : Reload(p, fetched)

SpecSession == InitSession /\ [][NextSession]_vars


----------------------------------------------------------------------------
(* Scoring: getRoundScores and calculateHandValue on hands drawn from a small deck *)

ScoringRanks == 3

ScoringDeck == SeqToSet(OrderedDeck(ScoringRanks))

\* the cards of a set as a sequence, lowest id first
RECURSIVE SetToSeq(_)
SetToSeq(S) ==
    IF S = {} THEN <<>>
    ELSE LET c == CHOOSE x \in S : \A y \in S : x <= y
         IN  <<c>> \o SetToSeq(S \ {c})

\* hands of one to HandSize cards
ScoringHands == {h \in SUBSET ScoringDeck : Cardinality(h) \in 1 .. HandSize}

\* one hand per seat, no card in two hands
ScoringDeals(n) ==
    {hs \in [1 .. n -> ScoringHands] :
        \A i, j \in 1 .. n : i # j => hs[i] \cap hs[j] = {}}

\* a round in play in which the seats hold the hands hs, the wildcard is joker
\* and the active seat is callerIndex
ScoringState(hs, callerIndex, joker) ==
    [InitialGameState EXCEPT
        !.gameMode = "MULTIPLAYER",
        !.players = [i \in DOMAIN hs |->
                        [NewPlayer(i - 1, FALSE, "Waiting...") EXCEPT !.hand = SetToSeq(hs[i])]],
        !.deck = SetToSeq(ScoringDeck \ UNION {hs[i] : i \in DOMAIN hs}),
        !.currentPlayerIndex = callerIndex,
        !.roundJoker = joker,
        !.totalRounds = MaxTotalRounds,
        !.phase = "PLAYER_TURN_START",
        !.turnLog = <<"round started">>]

InitScoring ==
    /\ \E n \in MultiplayerCounts :
       \E hs \in ScoringDeals(n), callerIndex \in 0 .. (n - 1),
          joker \in (0 .. (ScoringRanks - 1)) \cup {NoCard} :
            gameState = [p \in Participants |->
                            IF p = Me THEN ScoringState(hs, callerIndex, joker)
                            ELSE InitialGameState]
    /\ selectedCardIds = [p \in Participants |-> <<>>]
    /\ isTransitioning = [p \in Participants |-> FALSE]
    /\ myOnlineId = [p \in Participants |-> NoSeat]
    /\ roomCode = [p \in Participants |-> FALSE]
    /\ isOnlineLobby = [p \in Participants |-> FALSE]
    /\ onlineLobbyPlayers = [p \in Participants |-> <<>>]
    /\ selectedTotalRounds = [p \in Participants |-> MaxTotalRounds]
    /\ setupPlayerCount = [p \in Participants |-> Len(gameState[Me].players)]
    /\ room = NoRoom
    /\ pushes = {}
    /\ inbox = [p \in Participants |-> <<>>]
    /\ session = [p \in Participants |-> NoSession]
    /\ joining = [p \in Participants |-> <<>>]
    /\ deckKind = "legal"
    /\ steps = 0
    /\ hist = InitHist

\* the active seat presses SHOW: handleShow scores the round
NextScoring == ClickShow(Me)

SpecScoring == InitScoring /\ [][NextScoring]_vars

----------------------------------------------------------------------------
(* The bots: decideBotAction and the bot effect on hands drawn from a small deck *)

BotRanks == 3
BotSuits == 3
BotRankStep == 3

\* the cards the acting bot's hand and the wildcard are drawn from: BotRanks
\* ranks, BotRankStep apart (Ace, 4 and 7), in BotSuits suits, so that a hand
\* can be worth more than ShowThreshold and can hold a pair of the wildcard's
\* rank
BotDeck ==
    {st * Len(RANKS) + BotRankStep * r :
        st \in 0 .. (BotSuits - 1), r \in 0 .. (BotRanks - 1)}

\* the deck of a single-player match
BotFullDeck == SeqToSet(OrderedDeck(LegalRanks(SinglePlayerSeats)))

\* hands of one to HandSize cards, in every order
BotHands ==
    {h \in UNION {[1 .. n -> BotDeck] : n \in 1 .. HandSize} :
        \A i, j \in DOMAIN h : i # j => h[i] # h[j]}

\* the cards held by the other seats: two each, from the ranks above BotRanks
OtherCards == SetToSeq(BotFullDeck \ BotDeck)
OtherHand(k) == <<OtherCards[2 * k - 1], OtherCards[2 * k]>>

\* a single-player round in which seat 1, a bot, is about to act on hand
BotState(hand, joker, tossed) ==
    [InitialGameState EXCEPT
        !.gameMode = "SINGLE_PLAYER",
        !.players = [i \in 1 .. SinglePlayerSeats |->
                        [SinglePlayerPlayers[i] EXCEPT
                            !.hand = IF i = 2 THEN hand
                                     ELSE OtherHand(IF i = 1 THEN 1 ELSE i - 1)]],
        !.deck = SetToSeq(BotDeck \ (SeqToSet(hand) \cup {joker})),
        !.currentPlayerIndex = 1,
        !.roundJoker = joker,
        !.totalRounds = MaxTotalRounds,
        !.phase = "PLAYER_TURN_START",
        !.tossedThisTurn = tossed,
        !.turnLog = <<"round started">>]

InitBot ==
    /\ \E hand \in BotHands, tossed \in BOOLEAN :
       \E joker \in (BotDeck \ SeqToSet(hand)) \cup {NoCard} :
            gameState = [p \in Participants |->
                            IF p = Me THEN BotState(hand, joker, tossed)
                            ELSE InitialGameState]
    /\ selectedCardIds = [p \in Participants |-> <<>>]
    /\ isTransitioning = [p \in Participants |-> FALSE]
    /\ myOnlineId = [p \in Participants |-> NoSeat]
    /\ roomCode = [p \in Participants |-> FALSE]
    /\ isOnlineLobby = [p \in Participants |-> FALSE]
    /\ onlineLobbyPlayers = [p \in Participants |-> <<>>]
    /\ selectedTotalRounds = [p \in Participants |-> MaxTotalRounds]
    /\ setupPlayerCount = [p \in Participants |-> SinglePlayerSeats]
    /\ room = NoRoom
    /\ pushes = {}
    /\ inbox = [p \in Participants |-> <<>>]
    /\ session = [p \in Participants |-> NoSession]
    /\ joining = [p \in Participants |-> <<>>]
    /\ deckKind = "legal"
    /\ steps = 0
    /\ hist = InitHist

\* the bot effect runs while a bot is the active seat
NextBot == BotStep(Me)

SpecBot == InitBot /\ [][NextBot]_vars

----------------------------------------------------------------------------
(* Match end: the winner named by the match-end modal *)

MaxTotalScore == 2

\* a winner that keeps the earlier seat when two totals are equal
RECURSIVE matchWinnerKeepsFirst(_)
matchWinnerKeepsFirst(players) ==
    IF Len(players) = 1 THEN players[1]
    ELSE LET prev == matchWinnerKeepsFirst(Front(players))
             curr == Last(players)
         IN  IF prev.totalScore <= curr.totalScore THEN prev ELSE curr

\* players.reduce((prev, curr) => (prev.totalScore < curr.totalScore ? prev : curr))
RECURSIVE matchWinner(_)
matchWinner(players) ==
    IF Len(players) = 1 THEN players[1]
    ELSE LET prev == matchWinner(Front(players))
             curr == Last(players)
         IN  IF prev.totalScore < curr.totalScore THEN prev ELSE curr

\* the orders in which the players array can hold n seats
SeatOrders(n) ==
    {f \in [1 .. n -> 0 .. (n - 1)] : \A i, j \in 1 .. n : i # j => f[i] # f[j]}

\* the round-end state of the last round of a pass-and-play match
FinalRoundState(order, totals) ==
    [InitialGameState EXCEPT
        !.gameMode = "MULTIPLAYER",
        !.players = [i \in DOMAIN order |->
                        [NewPlayer(order[i], FALSE, "Revealed") EXCEPT
                            !.totalScore = totals[i],
                            !.wasCaller = (i = 1)]],
        !.roundNumber = MaxTotalRounds,
        !.totalRounds = MaxTotalRounds,
        !.phase = "ROUND_END",
        !.turnLog = <<"round started", "called SHOW">>]

InitWinner ==
    /\ \E n \in MultiplayerCounts :
       \E order \in SeatOrders(n), totals \in [1 .. n -> 0 .. MaxTotalScore] :
            gameState = [p \in Participants |->
                            IF p = Me THEN FinalRoundState(order, totals)
                            ELSE InitialGameState]
    /\ selectedCardIds = [p \in Participants |-> <<>>]
    /\ isTransitioning = [p \in Participants |-> FALSE]
    /\ myOnlineId = [p \in Participants |-> NoSeat]
    /\ roomCode = [p \in Participants |-> FALSE]
    /\ isOnlineLobby = [p \in Participants |-> FALSE]
    /\ onlineLobbyPlayers = [p \in Participants |-> <<>>]
    /\ selectedTotalRounds = [p \in Participants |-> MaxTotalRounds]
    /\ setupPlayerCount = [p \in Participants |-> Len(gameState[Me].players)]
    /\ room = NoRoom
    /\ pushes = {}
    /\ inbox = [p \in Participants |-> <<>>]
    /\ session = [p \in Participants |-> NoSession]
    /\ joining = [p \in Participants |-> <<>>]
    /\ deckKind = "legal"
    /\ steps = 0
    /\ hist = InitHist

\* See Final Results is pressed
NextWinner == ClickNextRound(Me)

SpecWinner == InitWinner /\ [][NextWinner]_vars

----------------------------------------------------------------------------
(* Local play with the draws scheduled fairly *)

\* no click is refused in this step
Accepted == hist'.rejected = hist.rejected

\* a toss or a discard is followed only when the draw that ends its turn is
\* still within MaxSteps
LeavesRoomForDraw ==
    gameState[Me].phase = "PLAYER_TURN_START" /\ gameState'[Me].phase \in DrawPhases
        => steps < MaxSteps - 1

NextTurns == Next /\ Accepted /\ LeavesRoomForDraw

\* the active seat's draw: the player's click on a pile, or the bot effect's
\* timeout in a draw phase
ActiveSeatDraws ==
    /\ gameState[Me].phase \in DrawPhases
    /\ ClickDrawPile(Me) \/ ClickOpenPile(Me) \/ BotStep(Me)
    /\ Accepted

SpecTurns == Init /\ [][NextTurns]_vars /\ WF_vars(ActiveSeatDraws)

----------------------------------------------------------------------------
(* Rounds dealt from any order of the low cards: startRound with a shuffle
   that brings the low cards to the front of the deck *)

\* the low ranks whose cards the deal varies
DealRanks == 3

\* Ace to DealRanks of the first two suits
DealPool == {c \in 0 .. (2 * Len(RANKS) - 1) : Rank(c) < DealRanks}

\* the other cards of the deck in the order createDeck builds them
DealRest == SelectSeq(OrderedDeck(Len(RANKS)), LAMBDA c : c \notin DealPool)

\* the arrangements of the low cards: three to the first seat (listed in
\* ascending order), three on top of the draw pile in any order
PoolOrders ==
    {o \in [1 .. (2 * HandSize) -> DealPool] :
        /\ \A i, j \in DOMAIN o : i # j => o[i] # o[j]
        /\ \A i \in 1 .. (HandSize - 1) : o[i] < o[i + 1]}

\* the round startRound deals to two seats passing one device from the deck
\* whose first cards are o[1..3], the next three of DealRest, then o[4..6]
DealtState(o, joker) ==
    [InitialGameState EXCEPT
        !.gameMode = "MULTIPLAYER",
        !.players = Deal(MultiplayerPlayers(2),
                         SubSeq(o, 1, HandSize) \o SubSeq(DealRest, 1, HandSize)),
        !.deck = SubSeq(o, HandSize + 1, 2 * HandSize)
                    \o SubSeq(DealRest, HandSize + 1, Len(DealRest)),
        !.openDeck = <<>>,
        !.currentPlayerIndex = 0,
        !.roundJoker = joker,
        !.roundNumber = 1,
        !.totalRounds = DEFAULT_TOTAL_ROUNDS,
        !.phase = "PLAYER_TURN_START",
        !.turnLog = <<"round started">>]

InitHands ==
    \E o \in PoolOrders : \E joker \in {DealRest[1]} :
        /\ gameState = [p \in Participants |->
                           IF p = Me THEN DealtState(o, joker) ELSE InitialGameState]
        /\ selectedCardIds = [p \in Participants |-> <<>>]
        /\ isTransitioning = [p \in Participants |-> FALSE]
        /\ myOnlineId = [p \in Participants |-> NoSeat]
        /\ roomCode = [p \in Participants |-> FALSE]
        /\ isOnlineLobby = [p \in Participants |-> FALSE]
        /\ onlineLobbyPlayers = [p \in Participants |-> <<>>]
        /\ selectedTotalRounds = [p \in Participants |-> DEFAULT_TOTAL_ROUNDS]
        /\ setupPlayerCount = [p \in Participants |-> 2]
        /\ room = NoRoom
        /\ pushes = {}
        /\ inbox = [p \in Participants |-> <<>>]
        /\ session = [p \in Participants |-> NoSession]
        /\ joining = [p \in Participants |-> <<>>]
        /\ deckKind = "legal"
        /\ steps = 0
        /\ hist = InitHist

NextHands ==
    \/ Ready(Me)
    \/ \E card \in 0 .. (DeckSize(Len(RANKS)) - 1) : ClickCard(Me, card)
    \/ ClickToss(Me)
    \/ ClickDiscard(Me)
    \/ ClickShow(Me)
    \/ ClickDrawPile(Me)
    \/ ClickOpenPile(Me)

SpecHands == InitHands /\ [][NextHands]_vars

----------------------------------------------------------------------------
(* The shuffle: shuffleDeck on the discards a recycling draw shuffles back *)

ShuffleSize == 4

\* the cards of the discard pile: one more than are shuffled, the top card stays
ShuffleCards == 0 .. ShuffleSize

\* the discard piles of two to ShuffleSize + 1 cards, in every order
ShufflePiles ==
    {d \in UNION {[1 .. n -> ShuffleCards] : n \in 2 .. (ShuffleSize + 1)} :
        \A i, j \in DOMAIN d : i # j => d[i] # d[j]}

\* the index choices of one shuffle of n cards: at step i, for i from n down
\* to 2, Math.floor(Math.random() * i) + 1 is one of 1 .. i
ChoiceSeqs(n) == {js \in [1 .. n -> 1 .. n] : \A i \in 1 .. n : js[i] <= i /\ (i = 1 => js[i] = 1)}

\* the bot effect's draw, recycle branch, with the values of Math.random as
\* input
BotDrawChoices(gs, js) ==
    LET p == currentPlayer(gs)
        recycled == shuffleDeck(Front(gs.openDeck), js)
        open0 == <<Last(gs.openDeck)>>
        open1 == IF gs.pendingToss # <<>> THEN open0 \o gs.pendingToss ELSE open0
        open2 == IF gs.pendingDiscard # NoCard THEN Append(open1, gs.pendingDiscard) ELSE open1
    IN  [gs EXCEPT
            !.players = BotHand(@, p.id, Append(p.hand, Head(recycled))),
            !.deck = Tail(recycled),
            !.openDeck = open2,
            !.pendingToss = <<>>,
            !.pendingDiscard = NoCard,
            !.currentPlayerIndex = (gs.currentPlayerIndex + 1) % Len(gs.players),
            !.phase = "PLAYER_TURN_START",
            !.tossedThisTurn = FALSE,
            !.lastDiscardedId = NoCard]

\* the k-th card outside the discard pile
HandCard(k) == Len(RANKS) + k - 1

\* a single-player round whose deck has run out: seat 1, a bot, has discarded
\* and is about to draw, pile is the discard pile
ShuffleState(pile) ==
    [InitialGameState EXCEPT
        !.gameMode = "SINGLE_PLAYER",
        !.players = [i \in 1 .. SinglePlayerSeats |->
                        [SinglePlayerPlayers[i] EXCEPT
                            !.hand = IF i = 2 THEN <<HandCard(1), HandCard(2)>>
                                     ELSE <<HandCard(2 * i + 1), HandCard(2 * i + 2)>>,
                            !.lastAction = "Ended Turn"]],
        !.openDeck = pile,
        !.currentPlayerIndex = 1,
        !.roundJoker = HandCard(1),
        !.totalRounds = MaxTotalRounds,
        !.phase = "PLAYER_DRAW",
        !.pendingDiscard = HandCard(11),
        !.lastDiscardedId = HandCard(11),
        !.turnLog = <<"round started">>]

InitShuffle ==
    /\ \E pile \in ShufflePiles :
          gameState = [p \in Participants |->
                          IF p = Me THEN ShuffleState(pile) ELSE InitialGameState]
    /\ selectedCardIds = [p \in Participants |-> <<>>]
    /\ isTransitioning = [p \in Participants |-> FALSE]
    /\ myOnlineId = [p \in Participants |-> NoSeat]
    /\ roomCode = [p \in Participants |-> FALSE]
    /\ isOnlineLobby = [p \in Participants |-> FALSE]
    /\ onlineLobbyPlayers = [p \in Participants |-> <<>>]
    /\ selectedTotalRounds = [p \in Participants |-> MaxTotalRounds]
    /\ setupPlayerCount = [p \in Participants |-> SinglePlayerSeats]
    /\ room = NoRoom
    /\ pushes = {}
    /\ inbox = [p \in Participants |-> <<>>]
    /\ session = [p \in Participants |-> NoSession]
    /\ joining = [p \in Participants |-> <<>>]
    /\ deckKind = "legal"
    /\ steps = 0
    /\ hist = InitHist

\* one run of the bot effect's timeout in a draw phase with the deck run out
\* and two discards or more
BotRecyclingDraw(p) ==
    LET gs == gameState[p]
    IN  /\ Running
        /\ isBotThinking(gs, isTransitioning[p])
        /\ gs.phase \in DrawPhases
        /\ BotDrawOutcome(gs) = "recycle"
        /\ steps < StepBound(p)
        /\ \E js \in ChoiceSeqs(Len(gs.openDeck) - 1) :
              gameState' = [gameState EXCEPT ![p] = Render(BotDrawChoices(gs, js))]
        /\ steps' = steps + 1
        /\ hist' = [hist EXCEPT !.lastOp = Op("bot", p, "recycle"),
                                !.completedTurns = @ + 1,
                                !.turnTosses = 0]
        /\ Static
        /\ UNCHANGED <<selectedCardIds, isTransitioning, isOnlineLobby,
                       selectedTotalRounds, room, pushes, inbox>>

NextShuffle == BotRecyclingDraw(Me)

SpecShuffle == InitShuffle /\ [][NextShuffle]_vars

----------------------------------------------------------------------------
(* Properties *)

Playing(gs) == gs.gameMode # "NONE" /\ gs.phase # "SETUP" /\ gs.players # <<>>

HandSizes(gs) == [i \in DOMAIN gs.players |-> Len(gs.players[i].hand)]

CardCount(gs) ==
    Len(gs.deck) + Len(gs.openDeck) + SumSeq(HandSizes(gs)) + Len(gs.pendingToss)
    + (IF gs.pendingDiscard # NoCard THEN 1 ELSE 0)

CardsOf(gs) ==
    SeqToSet(gs.deck) \cup SeqToSet(gs.openDeck) \cup SeqToSet(gs.pendingToss)
    \cup (IF gs.pendingDiscard # NoCard THEN {gs.pendingDiscard} ELSE {})
    \cup UNION {SeqToSet(gs.players[i].hand) : i \in DOMAIN gs.players}

FullDeckSize(gs) == DeckSize(DeckRanks(deckKind, Len(gs.players)))

FullDeck(gs) == SeqToSet(OrderedDeck(DeckRanks(deckKind, Len(gs.players))))

LastOp == hist.lastOp

\* C1: in every state of a match the cards of the draw pile, the discard
\* pile, the hands, the pending toss and the pending discard add up to the
\* size of the deck the round was dealt from, and no card is held twice.
C1_CardConservation ==
    \A p \in Participants :
        Playing(gameState[p]) =>
            /\ CardCount(gameState[p]) = FullDeckSize(gameState[p])
            /\ CardsOf(gameState[p]) = FullDeck(gameState[p])

\* C1 witness: a bot has just recycled the discard pile and drawn.
C1_Witness_AfterRecycle ==
    /\ LastOp.op = "bot" /\ LastOp.res = "recycle"
    /\ Playing(gameState[Me])

\* C2: a draw attempted in PLAYER_TURN_START, ROUND_END or MATCH_END, and a
\* toss, discard or show attempted in PLAYER_DRAW, PLAYER_TOSSING_DRAW,
\* ROUND_END or MATCH_END, is rejected and changes nothing of the game.
C2_OutOfPhaseRejected ==
    [][LET op == hist'.lastOp
           ph == gameState[op.by].phase
       IN  (\/ /\ op.op \in {"draw_deck", "draw_open", "call_draw"}
               /\ ph \in {"PLAYER_TURN_START", "ROUND_END", "MATCH_END"}
            \/ /\ op.op \in {"toss", "discard", "show"}
               /\ ph \in {"PLAYER_DRAW", "PLAYER_TOSSING_DRAW", "ROUND_END", "MATCH_END"})
           => /\ op.res = "rejected"
              /\ UNCHANGED <<gameState, selectedCardIds, isTransitioning, room, pushes,
                             inbox, steps>>]_vars

\* C2 witness: a SHOW pressed in PLAYER_DRAW was rejected.
C2_Witness_ShowInDrawRejected ==
    /\ LastOp = Op("show", Me, "rejected")
    /\ gameState[Me].phase = "PLAYER_DRAW"

\* C6: inside a round the active index is the round's starting index plus the
\* number of completed turns, modulo the number of seats: every completed
\* turn advances it by one and N completed turns bring it back.
C6_TurnRotation ==
    LET gs == gameState[Me]
    IN  Playing(gs) /\ gs.gameMode \notin OnlineModes =>
            gs.currentPlayerIndex =
                (hist.startIndex + hist.completedTurns) % Len(gs.players)

\* C6 witness: N turns were completed and the active index is back at the start.
C6_Witness_FullCircle ==
    LET gs == gameState[Me]
    IN  /\ Playing(gs)
        /\ hist.completedTurns = Len(gs.players)
        /\ gs.currentPlayerIndex = hist.startIndex
        /\ gs.phase = "PLAYER_TURN_START"

C8_PendingBuffers ==
    \A p \in Participants :
        LET gs == gameState[p]
        IN  /\ gs.phase = "PLAYER_TURN_START" =>
                  gs.pendingDiscard = NoCard /\ gs.pendingToss = <<>>
            /\ gs.pendingDiscard # NoCard => gs.phase = "PLAYER_DRAW"
            /\ gs.pendingToss # <<>> => gs.phase = "PLAYER_TOSSING_DRAW"
            /\ ~(gs.pendingDiscard # NoCard /\ gs.pendingToss # <<>>)

\* C8 witness: a pair is pending in PLAYER_TOSSING_DRAW.
C8_Witness_PendingToss ==
    /\ Len(gameState[Me].pendingToss) = 2
    /\ gameState[Me].phase = "PLAYER_TOSSING_DRAW"

C10_Recycling ==
    [][hist'.lastOp.res = "recycle" =>
          LET p == hist'.lastOp.by
              old == gameState[p]
              new == gameState'[p]
              k == Len(old.openDeck)
              who == old.players[old.currentPlayerIndex + 1].id
              hand == FindPlayer(new.players, who).hand
          IN  /\ old.deck = <<>> /\ k >= 2
              /\ Len(new.deck) = k - 2
              /\ SeqToSet(new.deck) \cup {Last(hand)} = SeqToSet(Front(old.openDeck))
              /\ new.openDeck = CommitPending(old, <<Last(old.openDeck)>>)]_vars

\* C10 witness: the active human's deck draw recycled the discard pile.
C10_Witness_Recycled ==
    LastOp.op = "call_draw" /\ LastOp.res = "recycle"

GameOps == {"toss", "discard", "show", "draw_deck", "draw_open", "call_draw"}

\* C3: a toss, discard, draw or show attempted online by a participant whose
\* seat id is not the id of the active seat of its snapshot, or attempted in
\* single-player mode while the active seat is a bot, is rejected: the
\* snapshot, the requests in flight and the shared record stay as they are.
C3_OnlyActiveSeatActs ==
    [][LET op == hist'.lastOp
           gs == gameState[op.by]
       IN  (/\ op.op \in GameOps
            /\ \/ gs.gameMode \in OnlineModes /\ currentPlayer(gs).id # myOnlineId[op.by]
               \/ gs.gameMode = "SINGLE_PLAYER" /\ currentPlayer(gs).isBot)
           => /\ op.res = "rejected"
              /\ UNCHANGED <<gameState, selectedCardIds, room, pushes, inbox, steps>>]_vars

\* C3 witness: the client pressed SHOW in a running round while the host's
\* seat was active, and was rejected.
C3_Witness_ClientRejected ==
    /\ LastOp = Op("show", 1, "rejected")
    /\ gameState[1].gameMode = "ONLINE_CLIENT"
    /\ gameState[1].phase = "PLAYER_TURN_START"
    /\ ~isOnlineLobby[1]
    /\ currentPlayer(gameState[1]).id = 0

Quiescent == pushes = {} /\ \A p \in Participants : inbox[p] = <<>>

SameSnapshot(a, b) == [a EXCEPT !.gameMode = "NONE"] = [b EXCEPT !.gameMode = "NONE"]

\* C5: when no write request and no update event is in flight, every
\* participant's snapshot equals the room's game_state, gameMode aside.
C5_ReplicasAgreeAtQuiescence ==
    Quiescent /\ room.game_state # <<>> =>
        \A p \in Participants : SameSnapshot(gameState[p], room.game_state[1])

\* C5 witness: quiescence after both participants have acted in the round.
C5_Witness_QuiescentAfterPlay ==
    /\ Quiescent
    /\ room.game_state # <<>>
    /\ room.game_state[1].currentPlayerIndex = 1
    /\ room.game_state[1].phase \in DrawPhases
    /\ LastOp.op = "deliver"

\* the case the reclaim check of handleDraw looks for
ReclaimCase(gs) ==
    /\ gs.phase = "PLAYER_DRAW"
    /\ gs.openDeck # <<>>
    /\ Last(gs.openDeck) = gs.lastDiscardedId

\* the card just discarded waits in pendingDiscard, so it is never the top of
\* the discard pile while its id is the lastDiscardedId marker
ReclaimCaseNeverArises == \A p \in Participants : ~ReclaimCase(gameState[p])

TossDone(op) == (op.op = "toss" /\ op.res = "ok") \/ (op.op = "bot" /\ op.res = "TOSS")

\* C12: a toss is carried out only when the active seat has not tossed this
\* turn and marks the turn as tossed; a toss attempt in a turn that is marked
\* is turned down and changes nothing; no turn holds more than one toss.
C12_TossOncePerTurn ==
    [][LET op == hist'.lastOp
           gs == gameState[op.by]
       IN  /\ TossDone(op) =>
                 /\ ~gs.tossedThisTurn
                 /\ gameState'[op.by].tossedThisTurn
                 /\ hist.turnTosses = 0
           /\ (op.op = "toss" /\ gs.tossedThisTurn) =>
                 /\ op.res = "rejected"
                 /\ UNCHANGED <<gameState, selectedCardIds, isTransitioning, room, pushes,
                                inbox, steps>>
           /\ hist'.turnTosses <= 1]_vars

\* C12 witness: a second press of TOSS in a turn that has its toss was turned down.
C12_Witness_SecondTossRejected ==
    /\ LastOp = Op("toss", Me, "rejected")
    /\ gameState[Me].tossedThisTurn
    /\ hist.turnTosses = 1

RECURSIVE FaceSum(_)
FaceSum(S) ==
    IF S = {} THEN 0
    ELSE LET c == CHOOSE x \in S : TRUE IN CardValue(c) + FaceSum(S \ {c})

\* the face values of the cards of a hand whose rank is not the wildcard's
NonWildValue(hand, joker) ==
    FaceSum({c \in SeqToSet(hand) : joker = NoCard \/ Rank(c) # Rank(joker)})

\* C14: the value of every hand is the sum of the face values of its cards
\* whose rank differs from the wildcard's rank; a card of the wildcard's rank
\* counts 0 in either suit.
C14_WildcardZeroing ==
    LET gs == gameState[Me]
    IN  \A i \in DOMAIN gs.players :
           /\ calculateHandValue(gs.players[i].hand, gs.roundJoker)
                 = NonWildValue(gs.players[i].hand, gs.roundJoker)
           /\ \A c \in SeqToSet(gs.players[i].hand) :
                 (gs.roundJoker # NoCard /\ Rank(c) = Rank(gs.roundJoker)) =>
                    calculateHandValue(<<c>>, gs.roundJoker) = 0
           /\ (gs.phase = "ROUND_END" /\ ~gs.players[i].wasCaller) =>
                 gs.players[i].score = NonWildValue(gs.players[i].hand, gs.roundJoker)

\* C14 witness: a scored seat holds a card of the wildcard's rank in a suit
\* other than the wildcard card's, next to a card that counts.
C14_Witness_WildcardInHand ==
    LET gs == gameState[Me]
    IN  /\ LastOp = Op("show", Me, "ok")
        /\ \E i \in DOMAIN gs.players :
              /\ ~gs.players[i].wasCaller
              /\ \E c \in SeqToSet(gs.players[i].hand) :
                    /\ Rank(c) = Rank(gs.roundJoker)
                    /\ Suit(c) # Suit(gs.roundJoker)
              /\ gs.players[i].score > 0
              /\ gs.players[i].score
                    < SumSeq([k \in DOMAIN gs.players[i].hand |->
                                 CardValue(gs.players[i].hand[k])])

\* what the round costs the seat at position i when the seat at position c
\* declared the end of the round
ExpectedRoundScore(players, c, joker, i) ==
    LET hv(k) == NonWildValue(players[k].hand, joker)
        others == {k \in DOMAIN players : players[k].id # players[c].id}
    IN  IF players[i].id # players[c].id THEN hv(i)
        ELSE IF \A k \in others : hv(c) < hv(k) THEN 0
        ELSE IF \A k \in others : hv(c) <= hv(k) THEN TiePenalty
        ELSE MisCallPenalty

\* C13: getRoundScores gives every seat but the caller the value of its own
\* hand, and the caller 0 when its value is the only lowest, 25 when it shares
\* the lowest value and 50 when another seat is lower; handleShow records
\* these as the seats' round scores.
C13_RoundScoring ==
    LET gs == gameState[Me]
        results == getRoundScores(gs.players, gs.currentPlayerIndex, gs.roundJoker)
    IN  /\ DOMAIN results = DOMAIN gs.players
        /\ \A i \in DOMAIN gs.players :
              /\ results[i].playerId = gs.players[i].id
              /\ results[i].roundScore
                    = ExpectedRoundScore(gs.players, gs.currentPlayerIndex + 1, gs.roundJoker, i)
        /\ gs.phase = "ROUND_END" =>
              \E c \in DOMAIN gs.players :
                 /\ gs.players[c].wasCaller
                 /\ \A i \in DOMAIN gs.players :
                       gs.players[i].score
                          = ExpectedRoundScore(gs.players, c, gs.roundJoker, i)

\* C13 witness: the caller shared the lowest value and was charged 25 while a
\* third seat, with a higher hand, was charged its own hand value.
C13_Witness_TiedCaller ==
    LET gs == gameState[Me]
    IN  /\ LastOp = Op("show", Me, "ok")
        /\ \E c, i, k \in DOMAIN gs.players :
              /\ gs.players[c].wasCaller /\ gs.players[c].score = TiePenalty
              /\ i # c /\ k # c /\ i # k
              /\ gs.players[i].score
                    = calculateHandValue(gs.players[c].hand, gs.roundJoker)
              /\ gs.players[k].score > gs.players[i].score
              /\ gs.players[k].score = calculateHandValue(gs.players[k].hand, gs.roundJoker)

\* a caller that held the only lowest hand was charged 0
C13_Witness_UniqueLowest ==
    LET gs == gameState[Me]
    IN  /\ LastOp = Op("show", Me, "ok")
        /\ \E c \in DOMAIN gs.players :
              /\ gs.players[c].wasCaller /\ gs.players[c].score = 0
              /\ calculateHandValue(gs.players[c].hand, gs.roundJoker) > 0

\* a caller that did not hold the lowest hand was charged 50
C13_Witness_MisCall ==
    LET gs == gameState[Me]
    IN  /\ LastOp = Op("show", Me, "ok")
        /\ \E c \in DOMAIN gs.players :
              gs.players[c].wasCaller /\ gs.players[c].score = MisCallPenalty

\* the cumulative score of the seat with this id in a snapshot, 0 before the
\* seat exists
TotalOf(gs, id) == IF HasPlayer(gs.players, id) THEN FindPlayer(gs.players, id).totalScore ELSE 0

\* the steps that begin a match
MatchStarts == {"start_single", "start_multi", "start_online"}

\* the round score of the seat with this id in a snapshot
ScoreOf(gs, id) == IF HasPlayer(gs.players, id) THEN FindPlayer(gs.players, id).score ELSE 0

\* a step that ends the round: SHOW by a person or a bot, or a draw that finds
\* both piles exhausted
RoundEnds(op) ==
    \/ op.op = "show" /\ op.res = "ok"
    \/ op.op = "bot" /\ op.res = "SHOW"
    \/ op.op \in {"draw_deck", "draw_open", "call_draw"} /\ op.res = "deadlock"

\* the round end adds every seat's round score to its cumulative score
AddsRoundScores(old, new) ==
    /\ old.phase # "ROUND_END" /\ new.phase = "ROUND_END"
    /\ \A i \in DOMAIN old.players :
          LET id == old.players[i].id
          IN  /\ ScoreOf(new, id)
                    = RoundScoreOf(getRoundScores(old.players, old.currentPlayerIndex,
                                                  old.roundJoker), id)
              /\ TotalOf(new, id) = TotalOf(old, id) + ScoreOf(new, id)

\* C15 as stated: the round end adds the round scores to the cumulative
\* scores, and no cumulative score goes down in any participant's snapshot
\* at any step of a match, the receipt of a snapshot included.
C15_AdditiveAndMonotone ==
    [][LET op == hist'.lastOp
       IN  /\ RoundEnds(op) => AddsRoundScores(gameState[op.by], gameState'[op.by])
           /\ op.op \notin MatchStarts =>
                 \A p \in Participants, id \in SeatIds :
                    TotalOf(gameState'[p], id) >= TotalOf(gameState[p], id)]_vars

\* C15 (amended): the round end adds every seat's round score to its
\* cumulative score; every other step of a match that a participant takes
\* itself, startRound included, leaves every cumulative score as it is; the
\* receipt of a snapshot replaces the cumulative scores by the received ones.
C15_AdditiveBetweenReceipts ==
    [][LET op == hist'.lastOp
       IN  /\ RoundEnds(op) => AddsRoundScores(gameState[op.by], gameState'[op.by])
           /\ (op.op \notin MatchStarts \cup {"deliver"} /\ ~RoundEnds(op)) =>
                 \A p \in Participants, id \in SeatIds :
                    TotalOf(gameState'[p], id) = TotalOf(gameState[p], id)
           /\ op.op = "deliver" =>
                 /\ \A p \in Participants \ {op.by} : gameState'[p] = gameState[p]
                 /\ LET event == Head(inbox[op.by])
                    IN  (event.status \in {"PLAYING", "FINISHED"} /\ event.game_state # <<>>) =>
                           \A id \in SeatIds :
                              TotalOf(gameState'[op.by], id) = TotalOf(event.game_state[1], id)]_vars

\* C15 witness: a second round has ended and a seat's cumulative score is the
\* sum of two round scores that both count.
C15_Witness_TwoRoundsAdded ==
    LET gs == gameState[Me]
    IN  /\ RoundEnds(LastOp)
        /\ gs.roundNumber = 2
        /\ gs.phase = "ROUND_END"
        /\ \E i \in DOMAIN gs.players :
              gs.players[i].score > 0 /\ gs.players[i].totalScore > gs.players[i].score

\* C16: the first round of a match starts with seat 0 as active seat, and
\* every later round starts with the seat that declared the end of the round
\* before it.
C16_CallerStartsNextRound ==
    [][LET op == hist'.lastOp
           old == gameState[op.by]
           new == gameState'[op.by]
       IN  /\ op.op \in MatchStarts =>
                 new.roundNumber = 1 /\ currentPlayer(new).id = 0
           /\ (op.op = "next_round" /\ op.res = "ok") =>
                 /\ new.roundNumber = old.roundNumber + 1
                 /\ HasCaller(old.players)
                 /\ currentPlayer(new).id = Caller(old.players).id]_vars

\* no handler assigns the phase MATCH_END
MatchEndNeverEntered == \A p \in Participants : gameState[p].phase # "MATCH_END"

\* C17: pressing the round-end modal's button in the last round moves the
\* phase to MATCH_END, and in an earlier round starts round roundNumber + 1.
C17_AdvanceReachesMatchEnd ==
    [][LET op == hist'.lastOp
           old == gameState[op.by]
           new == gameState'[op.by]
       IN  (op.op = "next_round" /\ op.res # "rejected") =>
              IF old.roundNumber >= old.totalRounds
              THEN new.phase = "MATCH_END"
              ELSE /\ new.phase = "PLAYER_TURN_START"
                   /\ new.roundNumber = old.roundNumber + 1]_vars

\* the positions of the players array that hold the lowest cumulative score
LowestPositions(players) ==
    {i \in DOMAIN players : \A k \in DOMAIN players :
        players[i].totalScore <= players[k].totalScore}

\* C18 as stated: the winner holds the lowest cumulative score and, among the
\* seats that hold it, is the first in seat order.
C18_WinnerIsFirstLowest ==
    LET players == gameState[Me].players
        lowestIds == {players[i].id : i \in LowestPositions(players)}
    IN  players # <<>> =>
           /\ matchWinner(players).id \in lowestIds
           /\ \A id \in lowestIds : matchWinner(players).id <= id

\* C18 (amended): the winner holds the lowest cumulative score and, among the
\* seats that hold it, is the one that comes last in the players array.
C18_WinnerIsLastLowest ==
    LET players == gameState[Me].players
        lowest == LowestPositions(players)
    IN  players # <<>> =>
           \E i \in lowest :
              /\ matchWinner(players) = players[i]
              /\ \A k \in lowest : k <= i

\* C18 witness: the final results were asked for with two seats sharing the
\* lowest cumulative score, and the winner is the later of them in the array.
C18_Witness_TiedLowest ==
    LET players == gameState[Me].players
    IN  /\ LastOp = Op("next_round", Me, "last_round")
        /\ Len(players) = 3
        /\ players[1].totalScore = players[2].totalScore
        /\ players[2].totalScore < players[3].totalScore
        /\ matchWinner(players) = players[2]
        /\ players[1].id < players[2].id

\* the UPDATE event carries a game: status PLAYING or FINISHED and a game_state
CarriesGame(event) == event.status \in {"PLAYING", "FINISHED"} /\ event.game_state # <<>>

\* C19: on the receipt of a room update with status PLAYING or FINISHED and a
\* game_state, the participant's snapshot becomes the received game_state in
\* every field but gameMode, which is ONLINE_HOST for seat id 0 and
\* ONLINE_CLIENT for every other; nothing of the previous snapshot is kept.
C19_OverwriteOnReceipt ==
    [][LET op == hist'.lastOp
           event == Head(inbox[op.by])
       IN  (op.op = "deliver" /\ CarriesGame(event)) =>
              /\ gameState'[op.by]
                    = [event.game_state[1] EXCEPT
                          !.gameMode = IF myOnlineId[op.by] = 0 THEN "ONLINE_HOST"
                                       ELSE "ONLINE_CLIENT"]
              /\ \A q \in Participants \ {op.by} : gameState'[q] = gameState[q]]_vars

\* C19 witness: a client took over a snapshot of a turn in progress that was
\* written with gameMode ONLINE_HOST, and holds it as ONLINE_CLIENT.
C19_Witness_ClientReceived ==
    \E p \in Participants \ {Me} :
       /\ LastOp = Op("deliver", p, "ok")
       /\ room.game_state # <<>>
       /\ room.game_state[1].gameMode = "ONLINE_HOST"
       /\ gameState[p] = [room.game_state[1] EXCEPT !.gameMode = "ONLINE_CLIENT"]
       /\ gameState[p].phase \in DrawPhases
       /\ Len(gameState[p].turnLog) >= 2

\* C20: applying to a participant's state the snapshot it has just received
\* once more gives the same state again: snapshot, scores, turn log, piles,
\* hands, phase, active seat and lobby view.
C20_SnapshotIdempotence ==
    [][LET op == hist'.lastOp
           p == op.by
           event == Head(inbox[p])
           again == OnRoomUpdate(gameState'[p], isOnlineLobby'[p], onlineLobbyPlayers'[p],
                                 myOnlineId[p], event)
       IN  op.op = "deliver" =>
              /\ Render(again.gameState) = gameState'[p]
              /\ again.isOnlineLobby = isOnlineLobby'[p]
              /\ again.onlineLobbyPlayers = onlineLobbyPlayers'[p]]_vars

\* C20 witness: a participant received the end of a round, with round scores
\* added to the cumulative scores and the caller's entry in the turn log.
C20_Witness_RoundEndReceived ==
    \E p \in Participants :
       /\ LastOp = Op("deliver", p, "ok")
       /\ gameState[p].phase = "ROUND_END"
       /\ Last(gameState[p].turnLog) = "called SHOW"
       /\ \E i \in DOMAIN gameState[p].players : gameState[p].players[i].totalScore > 0

\* the status updateGameState writes with a snapshot
StatusFor(snapshot) == IF snapshot.phase = "MATCH_END" THEN "FINISHED" ELSE "PLAYING"

\* C21: every write of a snapshot sets the room's status to FINISHED when the
\* snapshot's phase is MATCH_END and to PLAYING otherwise, and nothing else
\* changes the status; the status is WAITING exactly while no snapshot has
\* been written.
C21_StatusDerivedFromPhase ==
    [][LET op == hist'.lastOp
       IN  /\ op.op = "push_arrive" =>
                 \E q \in pushes :
                    /\ pushes' = pushes \ {q}
                    /\ room'.game_state = <<q.state>>
                    /\ room'.status = StatusFor(q.state)
                    /\ room'.players = room.players
           /\ op.op # "push_arrive" => room' = room
           /\ (room.status = "WAITING") <=> (room.game_state = <<>>)
           /\ (room'.status = "WAITING") <=> (room'.game_state = <<>>)
           /\ \A p \in Participants :
                 /\ updateGameState(room, [gameState[p] EXCEPT !.phase = "MATCH_END"]).status
                       = "FINISHED"
                 /\ updateGameState(room, gameState[p]).status = StatusFor(gameState[p])]_vars

\* C21 witness: the end of a round was written to a room that was PLAYING and
\* the status is PLAYING.
C21_Witness_RoundEndWritten ==
    /\ LastOp.op = "push_arrive"
    /\ room.status = "PLAYING"
    /\ room.game_state # <<>>
    /\ room.game_state[1].phase = "ROUND_END"

----------------------------------------------------------------------------
(* Reconnection *)

\* C22: a reload with a saved {code, seat id} whose room cannot be fetched, or
\* is gone, removes the saved session and leaves the participant at the
\* initial menu with no room code; otherwise the room code and the seat id are
\* restored and, when the room is not WAITING and has a game_state, the local
\* snapshot is the fetched game_state with gameMode host iff the seat id is 0;
\* the reload itself writes nothing to the room, sends no push and plays no
\* action, and touches no other participant
C22_Reconnection ==
    [][hist'.lastOp.op = "reload" /\ session[hist'.lastOp.by].code =>
         LET p == hist'.lastOp.by
             saved == session[p]
             res == hist'.lastOp.res
         IN  /\ room' = room /\ pushes' = pushes /\ steps' = steps
             /\ \A q \in Participants \ {p} :
                   /\ gameState'[q] = gameState[q]
                   /\ session'[q] = session[q]
                   /\ myOnlineId'[q] = myOnlineId[q]
             /\ room.status = "ABSENT" => res \in {"fetch_failed", "no_room"}
             /\ res \in {"fetch_failed", "no_room"} =>
                   /\ session'[p] = NoSession
                   /\ ~roomCode'[p]
                   /\ myOnlineId'[p] = NoSeat
                   /\ ~isOnlineLobby'[p]
                   /\ gameState'[p] = InitialGameState
             /\ res \notin {"fetch_failed", "no_room"} =>
                   /\ session'[p] = saved
                   /\ roomCode'[p]
                   /\ myOnlineId'[p] = saved.playerId
                   /\ (room.status # "WAITING" /\ room.game_state # <<>>) =>
                         /\ gameState'[p] =
                               [room.game_state[1] EXCEPT !.gameMode =
                                   IF saved.playerId = 0 THEN "ONLINE_HOST"
                                                         ELSE "ONLINE_CLIENT"]
                         /\ ~isOnlineLobby'[p]]_vars

\* a client has reloaded during a round and holds the room's snapshot again
C22_Witness_ClientRestoredInGame ==
    /\ hist.lastOp = Op("reload", hist.lastOp.by, "game")
    /\ myOnlineId[hist.lastOp.by] \notin {0, NoSeat}
    /\ gameState[hist.lastOp.by].phase \in {"PLAYER_TURN_START", "ROUND_END"}
    /\ gameState[hist.lastOp.by].gameMode = "ONLINE_CLIENT"

\* a reload whose fetch failed has dropped the saved session
C22_Witness_SessionDropped ==
    /\ hist.lastOp = Op("reload", hist.lastOp.by, "fetch_failed")
    /\ room.status = "PLAYING"
    /\ session[hist.lastOp.by] = NoSession
    /\ ~roomCode[hist.lastOp.by]

----------------------------------------------------------------------------
(* Join validation *)

JoinRefusals == {"not_found", "started", "full"}

\* C23: a join of a room that does not exist, whose status is not WAITING, or
\* that already has MaxRoomPlayers players, fails: the room record (players,
\* status, game_state) is unchanged, no write of it is left pending, and the
\* joiner has no room code, no seat id and no saved session
C23_JoinValidation ==
    [][hist'.lastOp.op = "join" =>
         LET p == hist'.lastOp.by
             refused == \/ room.status = "ABSENT"
                        \/ room.status # "WAITING"
                        \/ Len(room.players) >= MaxRoomPlayers
         IN  /\ refused <=> hist'.lastOp.res \in JoinRefusals
             /\ room.status = "ABSENT" <=> hist'.lastOp.res = "not_found"
             /\ refused =>
                   /\ room' = room
                   /\ pushes' = pushes
                   /\ joining'[p] = <<>>
                   /\ myOnlineId'[p] = NoSeat
                   /\ ~roomCode'[p]
                   /\ session'[p] = NoSession
                   /\ gameState'[p] = InitialGameState
                   /\ ~isOnlineLobby'[p]]_vars

\* a join of a room whose game has started was refused
C23_Witness_StartedRoomRefused ==
    /\ hist.lastOp = Op("join", hist.lastOp.by, "started")
    /\ room.status = "PLAYING"
    /\ myOnlineId[hist.lastOp.by] = NoSeat
    /\ session[hist.lastOp.by] = NoSession

\* a join of a full lobby was refused
C23_Witness_FullRoomRefused ==
    /\ hist.lastOp = Op("join", hist.lastOp.by, "full")
    /\ Len(room.players) = MaxRoomPlayers

\* a join of a code that names no room was refused
C23_Witness_NoRoomRefused ==
    /\ hist.lastOp = Op("join", hist.lastOp.by, "not_found")
    /\ room = NoRoom

----------------------------------------------------------------------------
(* Round advance online *)

\* the round numbers carried by the events a participant has still to receive
EventRounds(p) ==
    UNION {{inbox[p][k].game_state[i].roundNumber : i \in DOMAIN inbox[p][k].game_state} :
              k \in DOMAIN inbox[p]}

\* the round numbers held anywhere in an online match: in the participants'
\* snapshots, in the pushes in flight, in the room and in the events
RoundNumbersHeld ==
    {gameState[p].roundNumber : p \in {x \in Participants : gameState[x].gameMode \in OnlineModes}}
    \cup {q.state.roundNumber : q \in pushes}
    \cup {room.game_state[i].roundNumber : i \in DOMAIN room.game_state}
    \cup UNION {EventRounds(p) : p \in Participants}

OnlineStep(p) == gameState[p].gameMode \in OnlineModes

C24_Witness_ClientPressRefused ==
    /\ hist.lastOp = Op("next_round", hist.lastOp.by, "rejected")
    /\ myOnlineId[hist.lastOp.by] \notin {0, NoSeat}
    /\ gameState[hist.lastOp.by].gameMode = "ONLINE_CLIENT"
    /\ gameState[hist.lastOp.by].phase = "ROUND_END"

----------------------------------------------------------------------------
(* Bot policy *)

IsWild(c, joker) == joker # NoCard /\ Rank(c) = Rank(joker)

\* the positions i < j of two cards of one rank that is not the wildcard rank
TossablePairs(hand, joker) ==
    {pr \in (DOMAIN hand) \X (DOMAIN hand) :
        /\ pr[1] < pr[2]
        /\ Rank(hand[pr[1]]) = Rank(hand[pr[2]])
        /\ ~IsWild(hand[pr[1]], joker)}

\* the value a card has for the choice of the discard
PolicyValue(c, joker) == IF IsWild(c, joker) THEN 0 ELSE RANK_VALUES(Rank(c))

\* C25: the bot's decision is one action chosen by fixed priority: with
\* tossedThisTurn false and a pair of a rank other than the wildcard rank in
\* hand, TOSS of the first such pair; otherwise SHOW when the wildcard-aware
\* hand value is at most ShowThreshold; otherwise DISCARD of a card of the
\* highest value, wildcard-rank cards counting 0.  No wildcard pair is tossed
\* and no wildcard-rank card is discarded while a card of higher value is
\* held.  The bot effect carries the decision out on the chosen cards.
C25_BotPolicy ==
    [][(hist'.lastOp.op = "bot" /\ gameState[Me].phase = "PLAYER_TURN_START") =>
         LET gs == gameState[Me]
             new == gameState'[Me]
             hand == currentPlayer(gs).hand
             joker == gs.roundJoker
             pairs == TossablePairs(hand, joker)
             act == decideBotAction(currentPlayer(gs), joker, gs.tossedThisTurn)
             tossCase == ~gs.tossedThisTurn /\ pairs # {}
             showCase == ~tossCase /\ NonWildValue(hand, joker) <= ShowThreshold
         IN  /\ act.type \in {"TOSS", "SHOW", "DISCARD"}
             /\ hist'.lastOp.res = act.type
             /\ act.type = "TOSS" <=> tossCase
             /\ act.type = "SHOW" <=> showCase
             /\ act.type = "DISCARD" <=> (~tossCase /\ ~showCase)
             /\ act.type = "TOSS" =>
                   /\ \E pr \in pairs :
                         /\ act.cardIds = <<hand[pr[1]], hand[pr[2]]>>
                         /\ \A other \in pairs :
                               \/ pr[1] < other[1]
                               \/ pr[1] = other[1] /\ pr[2] <= other[2]
                   /\ \A i \in DOMAIN act.cardIds : ~IsWild(act.cardIds[i], joker)
                   /\ new.pendingToss = act.cardIds
                   /\ new.phase = "PLAYER_TOSSING_DRAW"
             /\ act.type = "SHOW" =>
                   /\ act.cardIds = <<>>
                   /\ new.phase = "ROUND_END"
             /\ act.type = "DISCARD" =>
                   /\ Len(act.cardIds) = 1
                   /\ \E i \in DOMAIN hand : act.cardIds[1] = hand[i]
                   /\ \A i \in DOMAIN hand :
                         PolicyValue(hand[i], joker) <= PolicyValue(act.cardIds[1], joker)
                   /\ ~IsWild(act.cardIds[1], joker)
                   /\ new.pendingDiscard = act.cardIds[1]
                   /\ new.phase = "PLAYER_DRAW"]_vars

\* a bot holding a pair of the wildcard rank has kept it and discarded its
\* third card
C25_Witness_WildPairKept ==
    /\ hist.lastOp = Op("bot", Me, "DISCARD")
    /\ gameState[Me].phase = "PLAYER_DRAW"
    /\ gameState[Me].pendingDiscard # NoCard
    /\ Len(currentPlayer(gameState[Me]).hand) = 2
    /\ \A i \in {1, 2} :
          IsWild(currentPlayer(gameState[Me]).hand[i], gameState[Me].roundJoker)
    /\ ~IsWild(gameState[Me].pendingDiscard, gameState[Me].roundJoker)

\* a bot has tossed a pair although its hand was worth at most ShowThreshold
C25_Witness_TossBeforeShow ==
    /\ hist.lastOp = Op("bot", Me, "TOSS")
    /\ Len(gameState[Me].pendingToss) = 2
    /\ SumSeq([i \in 1 .. 2 |-> CardValue(gameState[Me].pendingToss[i])])
          + SumSeq([i \in DOMAIN currentPlayer(gameState[Me]).hand |->
                      CardValue(currentPlayer(gameState[Me]).hand[i])]) <= ShowThreshold

\* a bot whose toss is spent has declared with a pair in hand
C25_Witness_ShowAfterToss ==
    /\ hist.lastOp = Op("bot", Me, "SHOW")
    /\ gameState[Me].phase = "ROUND_END"
    /\ gameState[Me].tossedThisTurn

----------------------------------------------------------------------------
(* The bot effect against the human handlers *)

\* two states agree on the piles, the hands, the pending buffers, the turn
\* markers, the phase, the active seat, the scores and the caller flag
AgreeOnPlay(a, b) ==
    /\ a.deck = b.deck
    /\ a.openDeck = b.openDeck
    /\ a.pendingToss = b.pendingToss
    /\ a.pendingDiscard = b.pendingDiscard
    /\ a.lastDiscardedId = b.lastDiscardedId
    /\ a.tossedThisTurn = b.tossedThisTurn
    /\ a.phase = b.phase
    /\ a.currentPlayerIndex = b.currentPlayerIndex
    /\ DOMAIN a.players = DOMAIN b.players
    /\ \A i \in DOMAIN a.players :
          /\ a.players[i].id = b.players[i].id
          /\ a.players[i].hand = b.players[i].hand
          /\ a.players[i].score = b.players[i].score
          /\ a.players[i].totalScore = b.players[i].totalScore
          /\ a.players[i].wasCaller = b.players[i].wasCaller

\* the bot effect and the handlers agree on show, toss and discard from gs
AgreeAtTurnStart(gs) ==
    /\ AgreeOnPlay(BotShow(gs), handleShow(gs))
    /\ ~gs.tossedThisTurn =>
          \A sel \in {<<currentPlayer(gs).hand[i], currentPlayer(gs).hand[j]>> :
                         i, j \in DOMAIN currentPlayer(gs).hand} :
             (sel[1] # sel[2] /\ Rank(sel[1]) = Rank(sel[2])) =>
                AgreeOnPlay(BotToss(gs, sel), handleToss(gs, sel))
    /\ \A i \in DOMAIN currentPlayer(gs).hand :
          AgreeOnPlay(BotDiscard(gs, <<currentPlayer(gs).hand[i]>>),
                      handleDiscard(gs, <<currentPlayer(gs).hand[i]>>))

\* the bot effect and handleDraw agree on a draw from the deck from gs
AgreeAtDraw(gs) ==
    \A seed \in Seeds : AgreeOnPlay(BotDraw(gs, seed), handleDraw(gs, "DECK", seed))

BotMatchesHumanOutsideDeadlock ==
    LET gs == gameState[Me]
    IN  /\ gs.phase = "PLAYER_TURN_START" => AgreeAtTurnStart(gs)
        /\ (gs.phase \in DrawPhases /\ DrawOutcome(gs, "DECK") # "deadlock") =>
              AgreeAtDraw(gs)

----------------------------------------------------------------------------
(* Hidden information *)

\* gs with the k-th card of the hand at position i and the d-th card of the
\* deck exchanged: the deal another shuffle would have given
SwapHandAndDeck(gs, i, k, d) ==
    [gs EXCEPT !.players[i].hand[k] = gs.deck[d],
               !.deck[d] = gs.players[i].hand[k]]

\* gs with two discards below the top card exchanged
SwapLowerDiscards(gs, a, b) ==
    [gs EXCEPT !.openDeck[a] = gs.openDeck[b], !.openDeck[b] = gs.openDeck[a]]

\* snapshots that differ from gs only in cards hidden from seat: the first
\* card of another seat's hand against the next card of the deck, or two
\* discards below the top card
HiddenVariants(gs, seat) ==
    {SwapHandAndDeck(gs, i, 1, 1) :
        i \in {x \in DOMAIN gs.players :
                  gs.players[x].id # seat /\ gs.players[x].hand # <<>> /\ gs.deck # <<>>}}
    \cup {SwapLowerDiscards(gs, a, b) :
            a \in 1 .. (Len(gs.openDeck) - 1), b \in 1 .. (Len(gs.openDeck) - 1)}

\* the UPDATE event a subscriber is sent when newState is written to the row
EventFor(row, newState) == updateGameState(row, newState)

\* C27 as stated: before ROUND_END, what a participant is sent from the shared
\* record is the same whatever the other seats' hands and the discards below
\* the top card are: a snapshot that differs only in those cards gives the
\* same event.
C27_HiddenInformation ==
    \A p \in Participants :
       \A n \in DOMAIN inbox[p] :
          LET event == inbox[p][n]
          IN  (CarriesGame(event) /\ event.game_state[1].phase \notin {"ROUND_END", "MATCH_END"}) =>
                 \A v \in HiddenVariants(event.game_state[1], myOnlineId[p]) :
                    EventFor(room, v) = EventFor(room, event.game_state[1])

----------------------------------------------------------------------------
(* Replication failure *)

\* the operations that push a snapshot
PushingOps == GameOps \cup {"start_online", "next_round"}

\* C28: when a push fails, the participants' local states stay as they are
\* (the pusher keeps the snapshot its action produced), the shared record
\* keeps its game_state and status, no event goes out, and the push is not
\* sent again: a push enters flight only with an action of its participant,
\* carrying the snapshot that action produced
C28_ReplicationFailure ==
    [][LET op == hist'.lastOp
       IN  /\ op.op = "push_fail" =>
                 /\ gameState' = gameState
                 /\ room' = room
                 /\ inbox' = inbox
                 /\ pushes' \subseteq pushes
                 /\ Cardinality(pushes') = Cardinality(pushes) - 1
           /\ pushes' \ pushes # {} =>
                 /\ op.op \in PushingOps
                 /\ \A q \in pushes' \ pushes :
                       q.by = op.by /\ q.state = gameState'[op.by]]_vars

\* the push of the host's opening deal was lost: the host holds the dealt
\* snapshot, the room is still waiting and nothing is in flight
C28_Witness_StartLost ==
    /\ hist.lastOp = Op("push_fail", hist.lastOp.by, "lost")
    /\ gameState[hist.lastOp.by].phase = "PLAYER_TURN_START"
    /\ gameState[hist.lastOp.by].players # <<>>
    /\ room.game_state = <<>>
    /\ room.status = "WAITING"
    /\ pushes = {}

\* after a lost push the pusher's snapshot and the room's differ and nothing
\* is in flight or undelivered that would bring them together
C28_Witness_RecordBehind ==
    /\ hist.lost = 1
    /\ hist.lastOp.op = "deliver"
    /\ pushes = {}
    /\ \A p \in Participants : inbox[p] = <<>>
    /\ room.game_state # <<>>
    /\ \E p \in Participants : ~SameSnapshot(gameState[p], room.game_state[1])

----------------------------------------------------------------------------
(* Illegal selections *)

\* the selection names a card that the active seat does not hold
NotInActiveHand(gs, sel) ==
    \E i \in DOMAIN sel : sel[i] \notin SeqToSet(currentPlayer(gs).hand)

\* the selection is two held cards of different ranks
UnequalRanks(gs, sel) ==
    /\ Len(sel) = 2
    /\ ~NotInActiveHand(gs, sel)
    /\ Rank(sel[1]) # Rank(sel[2])

\* the press was turned down and nothing changed
TurnedDown(res) ==
    /\ res = "rejected"
    /\ gameState' = gameState
    /\ pushes' = pushes
    /\ room' = room

\* C29 as stated: a toss of two cards of different ranks, a toss that names a
\* card outside the active hand, and a discard that names a card outside the
\* active hand are each rejected without an error being raised and leave the
\* state unchanged.
C29_IllegalSelectionsRejected ==
    [][LET op == hist'.lastOp
           gs == gameState[op.by]
           sel == selectedCardIds[op.by]
       IN  /\ (op.op = "toss" /\ UnequalRanks(gs, sel)) => TurnedDown(op.res)
           /\ (op.op = "toss" /\ Len(sel) = 2 /\ NotInActiveHand(gs, sel)) =>
                 TurnedDown(op.res)
           /\ (op.op = "discard" /\ Len(sel) = 1 /\ NotInActiveHand(gs, sel)) =>
                 TurnedDown(op.res)]_vars

\* the two cases that are checked before the cards are read
UnequalRanksAndForeignDiscardRejected ==
    [][LET op == hist'.lastOp
           gs == gameState[op.by]
           sel == selectedCardIds[op.by]
       IN  /\ (op.op = "toss" /\ UnequalRanks(gs, sel)) => TurnedDown(op.res)
           /\ (op.op = "discard" /\ Len(sel) = 1 /\ NotInActiveHand(gs, sel)) =>
                 TurnedDown(op.res)
           /\ op.res = "error" =>
                 /\ op.op = "toss"
                 /\ NotInActiveHand(gs, sel)
                 /\ gameState' = gameState /\ pushes' = pushes]_vars

----------------------------------------------------------------------------
(* Seats *)

\* currentPlayerIndex is a position of the players list
ActiveIndexInRange ==
    \A p \in Participants :
       gameState[p].players # <<>> =>
          gameState[p].currentPlayerIndex \in 0 .. (Len(gameState[p].players) - 1)

\* C30 as stated: in every state of a match the players list is in seat
\* order, players[i].id = i, and currentPlayerIndex is one of 0..N-1, so that
\* it names the same seat as a position and as a seat id.
C30_StableSeats ==
    \A p \in Participants :
       LET gs == gameState[p]
       IN  gs.players # <<>> =>
              /\ \A i \in DOMAIN gs.players : gs.players[i].id = i - 1
              /\ gs.currentPlayerIndex \in 0 .. (Len(gs.players) - 1)
              /\ currentPlayer(gs).id = gs.currentPlayerIndex

----------------------------------------------------------------------------
(* C31: the shuffle *)

RECURSIVE Factorial(_)
Factorial(n) == IF n <= 1 THEN 1 ELSE n * Factorial(n - 1)

\* every card of d is in e exactly once, and e holds nothing else
IsPermutationOf(e, d) ==
    /\ Len(e) = Len(d)
    /\ \A i \in DOMAIN d : Cardinality({k \in DOMAIN e : e[k] = d[i]}) = 1

\* the orderings of d, one for each sequence of random index choices
Shuffles(d) == {shuffleDeck(d, js) : js \in ChoiceSeqs(Len(d))}

\* the cards a recycling draw is about to shuffle
RecycledCards(gs) == Front(gs.openDeck)

BeforeRecycling(gs) ==
    /\ gs.phase \in DrawPhases
    /\ gs.deck = <<>>
    /\ Len(gs.openDeck) >= 2

\* C31: shuffleDeck returns a permutation of its input, and over the N cards
\* a recycling draw shuffles the N! sequences of random index choices give
\* the N! orderings, each ordering by exactly one sequence; after the
\* recycling draw the card drawn and the new deck are one such ordering:
\* every card once, none of them a card of a hand or of the discard pile.
C31_ShuffleIsBijection ==
    LET gs == gameState[Me]
        d == RecycledCards(gs)
        drawer == gs.players[((gs.currentPlayerIndex + Len(gs.players) - 1) % Len(gs.players)) + 1]
        dealt == <<Last(drawer.hand)>> \o gs.deck
    IN  /\ BeforeRecycling(gs) =>
            /\ \A js \in ChoiceSeqs(Len(d)) : IsPermutationOf(shuffleDeck(d, js), d)
            /\ \A js1, js2 \in ChoiceSeqs(Len(d)) :
                  shuffleDeck(d, js1) = shuffleDeck(d, js2) => js1 = js2
            /\ Cardinality(ChoiceSeqs(Len(d))) = Factorial(Len(d))
            /\ Cardinality(Shuffles(d)) = Factorial(Len(d))
        /\ hist.lastOp.res = "recycle" =>
            /\ Cardinality(SeqToSet(dealt)) = Len(dealt)
            /\ SeqToSet(dealt) \subseteq ShuffleCards
            /\ SeqToSet(dealt) \cap SeqToSet(gs.openDeck) = {}
            /\ Len(gs.openDeck) = 2

\* a recycling draw has shuffled ShuffleSize discards into the deck
C31_Witness_FullPileRecycled ==
    /\ hist.lastOp.res = "recycle"
    /\ Len(gameState[Me].deck) = ShuffleSize - 1
    /\ gameState[Me].phase = "PLAYER_TURN_START"

----------------------------------------------------------------------------
(* C32: the effect of a draw *)

DrawOps == {"draw_deck", "draw_open", "call_draw", "bot"}

\* the step is a draw that took a card
DrawTaken == hist'.lastOp.op \in DrawOps /\ hist'.lastOp.res \in {"ok", "recycle"}

\* the pending cards in the order they are committed
PendingCards(gs) ==
    gs.pendingToss \o (IF gs.pendingDiscard # NoCard THEN <<gs.pendingDiscard>> ELSE <<>>)

\* what a draw by p that took a card did to p's game state
DrawEffect(p) ==
    LET gs == gameState[p]
        ns == gameState'[p]
        n == Len(gs.players)
        pos == gs.currentPlayerIndex + 1
        fromOpen == hist'.lastOp.op = "draw_open"
        recycle == hist'.lastOp.res = "recycle"
        drawn == Last(ns.players[pos].hand)
    IN  /\ Len(ns.players) = n
        /\ ns.players[pos].hand = Append(gs.players[pos].hand, drawn)
        /\ IF fromOpen
           THEN /\ drawn = Last(gs.openDeck)
                /\ ns.deck = gs.deck
                /\ ns.openDeck = Front(gs.openDeck) \o PendingCards(gs)
           ELSE IF recycle
           THEN /\ SeqToSet(ns.deck) \cup {drawn} = SeqToSet(Front(gs.openDeck))
                /\ Len(ns.deck) = Len(gs.openDeck) - 2
                /\ ns.openDeck = <<Last(gs.openDeck)>> \o PendingCards(gs)
           ELSE /\ drawn = Head(gs.deck)
                /\ ns.deck = Tail(gs.deck)
                /\ ns.openDeck = gs.openDeck \o PendingCards(gs)
        /\ gs.pendingDiscard # NoCard => Last(ns.openDeck) = gs.pendingDiscard
        /\ ns.pendingToss = <<>>
        /\ ns.pendingDiscard = NoCard
        /\ ns.tossedThisTurn = FALSE
        /\ ns.lastDiscardedId = NoCard
        /\ ns.currentPlayerIndex = (gs.currentPlayerIndex + 1) % n
        /\ ns.phase = "PLAYER_TURN_START"
        /\ \A i \in 1 .. n :
              /\ ns.players[i].id = gs.players[i].id
              /\ ns.players[i].score = gs.players[i].score
              /\ ns.players[i].totalScore = gs.players[i].totalScore
              /\ i # pos => ns.players[i].hand = gs.players[i].hand
        /\ ns.roundJoker = gs.roundJoker
        /\ ns.roundNumber = gs.roundNumber

\* C32: a draw that takes a card (first card of the deck, recycled first when
\* the deck has run out, or top card of the discard pile) adds that card to
\* the active hand, appends the pending-toss cards and then the
\* pending-discard card to the discard pile, so a discarded card ends on top,
\* clears both buffers, tossedThisTurn and lastDiscardedId, moves
\* currentPlayerIndex to (currentPlayerIndex + 1) mod N, sets the phase to
\* PLAYER_TURN_START and changes no other hand, no score, not the wildcard
\* and not the round number.
C32_DrawEffect == [][DrawTaken => DrawEffect(hist'.lastOp.by)]_vars

\* a human drew the top card of the discard pile and the pile holds two
\* cards or more afterwards
C32_Witness_OpenDraw ==
    /\ hist.lastOp.op = "draw_open"
    /\ hist.lastOp.res = "ok"
    /\ Len(gameState[Me].openDeck) >= 2
    /\ gameState[Me].phase = "PLAYER_TURN_START"

\* a draw recycled the discard pile
C32_Witness_RecyclingDraw ==
    /\ hist.lastOp.op \in DrawOps
    /\ hist.lastOp.res = "recycle"
    /\ gameState[Me].phase = "PLAYER_TURN_START"

\* a bot drew from the deck after its discard
C32_Witness_BotDrawAfterDiscard ==
    /\ hist.lastOp.op = "bot"
    /\ hist.lastOp.res = "ok"
    /\ gameState[Me].openDeck # <<>>
    /\ gameState[Me].phase = "PLAYER_TURN_START"

----------------------------------------------------------------------------
(* C33: the effect of a toss *)

\* TOSS is pressed by p on its turn in PLAYER_TURN_START with two cards of the
\* active hand of one rank selected
PairTossPressed(p) ==
    LET gs == gameState[p]
        sel == selectedCardIds[p]
    IN  /\ hist'.lastOp.op = "toss"
        /\ hist'.lastOp.by = p
        /\ ActionButtonsShown(p)
        /\ Len(sel) = 2
        /\ sel[1] # sel[2]
        /\ SeqToSet(sel) \subseteq SeqToSet(currentPlayer(gs).hand)
        /\ Rank(sel[1]) = Rank(sel[2])

\* what the accepted toss did to p's game state
TossEffect(p) ==
    LET gs == gameState[p]
        ns == gameState'[p]
        sel == selectedCardIds[p]
        pos == gs.currentPlayerIndex + 1
    IN  /\ hist'.lastOp.res = "ok"
        /\ SeqToSet(ns.pendingToss) = SeqToSet(sel)
        /\ Len(ns.pendingToss) = 2
        /\ ns.players[pos].hand =
              SelectSeq(gs.players[pos].hand, LAMBDA c : c \notin SeqToSet(sel))
        /\ Len(ns.players[pos].hand) = Len(gs.players[pos].hand) - 2
        /\ \A i \in DOMAIN gs.players :
              i # pos => ns.players[i].hand = gs.players[i].hand
        /\ ns.tossedThisTurn = TRUE
        /\ ns.lastDiscardedId = NoCard
        /\ ns.pendingDiscard = NoCard
        /\ ns.deck = gs.deck
        /\ ns.openDeck = gs.openDeck
        /\ ns.currentPlayerIndex = gs.currentPlayerIndex
        /\ ns.phase = "PLAYER_TOSSING_DRAW"

\* C33: in PLAYER_TURN_START a toss of two cards of the active hand that share
\* a rank, two cards of the wildcard rank included, is accepted; it moves
\* exactly those two cards from the hand to pendingToss, sets tossedThisTurn,
\* leaves lastDiscardedId unset, the deck and the discard pile unchanged, and
\* sets the phase to PLAYER_TOSSING_DRAW.
C33_TossEffect ==
    [][\A p \in Participants : PairTossPressed(p) => TossEffect(p)]_vars

\* a pair of the wildcard rank has been tossed
C33_Witness_WildPairTossed ==
    /\ hist.lastOp.op = "toss"
    /\ hist.lastOp.res = "ok"
    /\ gameState[Me].phase = "PLAYER_TOSSING_DRAW"
    /\ Len(gameState[Me].pendingToss) = 2
    /\ \A i \in 1 .. 2 : IsWild(gameState[Me].pendingToss[i], gameState[Me].roundJoker)

\* a pair of another rank has been tossed
C33_Witness_PlainPairTossed ==
    /\ hist.lastOp.op = "toss"
    /\ hist.lastOp.res = "ok"
    /\ gameState[Me].phase = "PLAYER_TOSSING_DRAW"
    /\ Len(gameState[Me].pendingToss) = 2
    /\ \A i \in 1 .. 2 : ~IsWild(gameState[Me].pendingToss[i], gameState[Me].roundJoker)

----------------------------------------------------------------------------
(* C34: the caller flag *)

CallerSeats(gs) == {i \in DOMAIN gs.players : gs.players[i].wasCaller}

CallerFlagsByPhase(gs) ==
    /\ gs.phase = "ROUND_END" => Cardinality(CallerSeats(gs)) = 1
    /\ gs.phase \in {"PLAYER_TURN_START"} \cup DrawPhases => CallerSeats(gs) = {}

\* p's own handler declares the round end in this step: a show, a bot's show
\* or a draw that finds the deck run out and one discard or none
DeclaresRoundEnd(p) ==
    /\ hist'.lastOp.by = p
    /\ \/ hist'.lastOp.op = "show" /\ hist'.lastOp.res = "ok"
       \/ hist'.lastOp.op = "bot" /\ hist'.lastOp.res = "SHOW"
       \/ hist'.lastOp.op \in {"draw_deck", "call_draw"} /\ hist'.lastOp.res = "deadlock"

\* the seat marked afterwards is the seat that was active
ActiveSeatMarked(p) ==
    /\ gameState'[p].phase = "ROUND_END"
    /\ \A i \in DOMAIN gameState'[p].players :
          gameState'[p].players[i].wasCaller =
              (gameState'[p].players[i].id = currentPlayer(gameState[p]).id)

\* C34: in every state with phase ROUND_END exactly one seat has wasCaller
\* set, and when a show, a bot's show or a forced deadlock end declares the
\* round end that seat is the seat that was active; in every state with phase
\* PLAYER_TURN_START, PLAYER_DRAW or PLAYER_TOSSING_DRAW no seat has it set.
C34_CallerFlag ==
    /\ [](\A p \in Participants : CallerFlagsByPhase(gameState[p]))
    /\ [][\A p \in Participants : DeclaresRoundEnd(p) => ActiveSeatMarked(p)]_vars

\* a round ended by a show is followed by a round in play
C34_Witness_FlagResetInRoundTwo ==
    /\ gameState[Me].roundNumber = 2
    /\ gameState[Me].phase = "PLAYER_TURN_START"
    /\ CallerSeats(gameState[Me]) = {}

\* a forced deadlock end has marked its caller
C34_Witness_DeadlockCaller ==
    /\ hist.lastOp.res = "deadlock"
    /\ gameState[Me].phase = "ROUND_END"
    /\ Cardinality(CallerSeats(gameState[Me])) = 1

\* a bot's show has marked the bot
C34_Witness_BotCaller ==
    /\ hist.lastOp.op = "bot"
    /\ hist.lastOp.res = "SHOW"
    /\ gameState[Me].phase = "ROUND_END"
    /\ \E i \in CallerSeats(gameState[Me]) : gameState[Me].players[i].isBot

----------------------------------------------------------------------------
(* C35: hand sizes *)

\* the cards seat position i brought into the current turn: its hand, and for
\* the active seat the cards it has put down since the turn began
CardsHeld(gs, i) ==
    Len(gs.players[i].hand)
        + (IF i = gs.currentPlayerIndex + 1 THEN Len(PendingCards(gs)) ELSE 0)

HandSizesAtTurnStart(gs) ==
    Playing(gs) /\ gs.phase = "PLAYER_TURN_START" =>
        /\ \A i \in DOMAIN gs.players :
              Len(gs.players[i].hand) \in 1 .. HandSize
        /\ currentPlayer(gs).hand # <<>>

\* within a round no handler gives a seat more cards than it brought into the
\* turn, so its hand at its next turn start is no larger than at this one
HandSizesNeverGrow(p) ==
    LET gs == gameState[p]
        ns == gameState'[p]
    IN  /\ hist'.lastOp.by = p
        /\ hist'.lastOp.op \in GameOps \cup {"bot"}
        /\ Playing(gs) /\ Playing(ns)
        /\ gs.phase # "ROUND_END" /\ ns.phase # "ROUND_END"
        /\ ns.roundNumber = gs.roundNumber
        /\ Len(ns.players) = Len(gs.players)
        => \A i \in DOMAIN gs.players : CardsHeld(ns, i) <= CardsHeld(gs, i)

\* C35: at PLAYER_TURN_START every seat's hand holds between 1 and 3 cards,
\* the hand of the seat that has to choose an action is not empty, and a
\* seat's hand size at PLAYER_TURN_START never increases from one of its
\* turns to the next within a round.
C35_HandSizeBounds ==
    /\ [](\A p \in Participants : HandSizesAtTurnStart(gameState[p]))
    /\ [][\A p \in Participants : HandSizesNeverGrow(p)]_vars

\* a seat that tossed twice starts a turn with a single card
C35_Witness_OneCardHand ==
    LET gs == gameState[Me]
    IN  /\ Playing(gs) /\ gs.phase = "PLAYER_TURN_START"
        /\ \E i \in DOMAIN gs.players : Len(gs.players[i].hand) = 1

\* a seat's hand has shrunk and another seat's is still full
C35_Witness_ShrunkHand ==
    LET gs == gameState[Me]
    IN  /\ Playing(gs) /\ gs.phase = "PLAYER_TURN_START"
        /\ \E i, j \in DOMAIN gs.players :
              Len(gs.players[i].hand) = 2 /\ Len(gs.players[j].hand) = HandSize

----------------------------------------------------------------------------
(* C36: no deadlock with a full deck *)

\* a draw is due, the deck has run out and there is no discard to recycle
Deadlocked(gs) ==
    /\ gs.phase \in DrawPhases
    /\ gs.deck = <<>>
    /\ Len(gs.openDeck) < 2

\* the cards of the round: a legal deck leaves two cards or more after the deal
RoundCards(gs) ==
    Len(gs.deck) + Len(gs.openDeck) + SumSeq(HandSizes(gs)) + Len(PendingCards(gs))

\* C36: in a round dealt from a legal deck (two cards or more beyond the
\* hands, as the 52-card deck is for 2 to 10 seats) no state in PLAYER_DRAW or
\* PLAYER_TOSSING_DRAW has an empty deck together with fewer than 2 cards in
\* the discard pile: the cards outside the hands and the pending buffers are
\* all in the two piles.
C36_NoDeadlockWithLegalDeck ==
    \A p \in Participants :
        LET gs == gameState[p]
        IN  Playing(gs) /\ deckKind = "legal" =>
                /\ ~Deadlocked(gs)
                /\ gs.phase # "ROUND_END" =>
                      RoundCards(gs) >= HandSize * Len(gs.players) + 2

\* a draw is due with the deck run out and discards to recycle
C36_Witness_DeckRunOut ==
    LET gs == gameState[Me]
    IN  /\ Playing(gs) /\ deckKind = "legal"
        /\ gs.phase \in DrawPhases
        /\ gs.deck = <<>>
        /\ Len(gs.openDeck) >= 2

----------------------------------------------------------------------------
(* C37: the last-discarded marker *)

MarkerOnlyInDraw(gs) ==
    /\ (gs.lastDiscardedId # NoCard) <=> (gs.phase = "PLAYER_DRAW")
    /\ gs.phase = "PLAYER_DRAW" => gs.lastDiscardedId = gs.pendingDiscard
    /\ gs.openDeck # <<>> => Last(gs.openDeck) # gs.lastDiscardedId

\* C37: lastDiscardedId is set if and only if the phase is PLAYER_DRAW, it
\* then equals the card in pendingDiscard, and the top card of the discard
\* pile is never the card lastDiscardedId names.
C37_LastDiscardedMarker ==
    \A p \in Participants : MarkerOnlyInDraw(gameState[p])

\* a discard is pending over a pile that holds cards
C37_Witness_MarkerSetOverPile ==
    LET gs == gameState[Me]
    IN  /\ gs.phase = "PLAYER_DRAW"
        /\ gs.lastDiscardedId # NoCard
        /\ gs.openDeck # <<>>

\* a discarded card has reached the top of the pile and the marker is unset
C37_Witness_MarkerCleared ==
    LET gs == gameState[Me]
    IN  /\ gs.phase = "PLAYER_TURN_START"
        /\ gs.openDeck # <<>>
        /\ hist.lastOp.op \in DrawOps /\ hist.lastOp.res = "ok"
        /\ gs.lastDiscardedId = NoCard

----------------------------------------------------------------------------
(* C38: concurrent joins *)

\* p has joined the room as a client and waits in its lobby
JoinedLobby(p) ==
    /\ roomCode[p]
    /\ isOnlineLobby[p]
    /\ gameState[p].gameMode = "ONLINE_CLIENT"
    /\ myOnlineId[p] # NoSeat
    /\ room.status = "WAITING"

\* C38: two participants that have joined the same WAITING room, their fetch
\* and update steps interleaved or not, hold distinct seat ids, and the room's
\* players list holds both seats.
C38_ConcurrentJoins ==
    \A p, q \in Participants :
        p # q /\ JoinedLobby(p) /\ JoinedLobby(q) =>
            /\ myOnlineId[p] # myOnlineId[q]
            /\ myOnlineId[p] \in SeqToSet(room.players)
            /\ myOnlineId[q] \in SeqToSet(room.players)

----------------------------------------------------------------------------
(* C39: the round counter *)

RoundCounterInRange(gs) ==
    Playing(gs) => 1 <= gs.roundNumber /\ gs.roundNumber <= gs.totalRounds

\* the step starts a match: its first round
MatchStart == hist'.lastOp.op \in {"start_single", "start_multi", "start_online"}

\* p's own handler starts the next round in this step
RoundStart(p) ==
    hist'.lastOp.op = "next_round" /\ hist'.lastOp.by = p /\ hist'.lastOp.res = "ok"

\* the step is a receipt of a replicated state, which replaces p's state
Receipt(p) == hist'.lastOp.op = "deliver" /\ hist'.lastOp.by = p

\* what a step inside a match does to p's round counter
RoundCounterStep(p) ==
    LET gs == gameState[p]
        ns == gameState'[p]
    IN  Playing(gs) /\ Playing(ns) /\ ~MatchStart /\ ~Receipt(p) =>
            /\ ns.totalRounds = gs.totalRounds
            /\ ns.roundNumber = IF RoundStart(p) THEN gs.roundNumber + 1
                                ELSE gs.roundNumber

\* C39: in a match totalRounds never changes after the first round starts,
\* the host's reload and reconnection included; roundNumber increases by
\* exactly 1 at each round start and is unchanged by every other action; and
\* 1 <= roundNumber <= totalRounds in every state.
C39_RoundCounter ==
    /\ [](\A p \in Participants : RoundCounterInRange(gameState[p]))
    /\ [][\A p \in Participants : RoundCounterStep(p)]_vars

----------------------------------------------------------------------------
(* C40: turns complete *)

DrawDue(p) == Playing(gameState[p]) /\ gameState[p].phase \in DrawPhases

\* a draw the active seat can make: the player's click on a pile that is
\* rendered and not refused, or the bot's draw
DrawAvailable(p) ==
    LET gs == gameState[p]
    IN  \/ DrawPileClickable(p)
        \/ OpenPileClickable(p) /\ DrawOutcome(gs, "OPEN") = "ok"
        \/ isBotThinking(gs, isTransitioning[p]) /\ BotDrawOutcome(gs) # "deadlock"

TurnOver(p) == gameState[p].phase \in {"PLAYER_TURN_START", "ROUND_END"}

\* C40: in every state with phase PLAYER_DRAW or PLAYER_TOSSING_DRAW a draw
\* from the deck (recycled first by a bot when it has run out) or from the
\* discard pile is enabled for the active seat, human or bot, and with the
\* active seat's draws scheduled fairly the phase becomes PLAYER_TURN_START or
\* ROUND_END.
C40_TurnsComplete ==
    /\ [](DrawDue(Me) => DrawAvailable(Me))
    /\ DrawDue(Me) ~> TurnOver(Me)

\* a turn was completed by a draw made with the deck run out
C40_Witness_DrawnWithDeckRunOut ==
    /\ hist.lastOp.op \in DrawOps
    /\ hist.lastOp.res \in {"ok", "recycle"}
    /\ gameState[Me].phase = "PLAYER_TURN_START"
    /\ \/ hist.lastOp.res = "recycle"
       \/ hist.lastOp.op = "draw_open" /\ gameState[Me].deck = <<>>

====
